---- MODULE Spec2Model ----
(***************************************************************************)
(* Model of the HPC node monitor (src/Linux/hpc/beefs/monitor_hpc.py) and  *)
(* of the CPU usage routines of src/Linux/Cpu.                             *)
(*                                                                         *)
(* Representation of text.  The program reads files and command outputs    *)
(* as text and splits them on white space.  A token of such a text is a    *)
(* record [k, s, n, d]:                                                    *)
(*   k = "int"  integer text such as "42"     (value n, d = 1)             *)
(*   k = "dec"  decimal text such as "85.0"   (value n/d, d > 1)           *)
(*   k = "str"  any other word                (the word is s)              *)
(* int() accepts only "int" tokens, float() accepts "int" and "dec".       *)
(* A floating point quantity is the exact rational <<n, d>> with d > 0.    *)
(* The interpolated numbers of the details messages are left out: a        *)
(* details value is the message text of the source, and where the source   *)
(* appends a command's output, the raw output text is appended.            *)
(***************************************************************************)
EXTENDS FiniteSets, Integers, Sequences, TLC

VARIABLES
    pc,          \* position of the running invocation inside main()
    argv,        \* [force, test]: '--force-html' / '--test-html' in sys.argv
    clock,       \* wall clock, in runs: the timestamp source
    timestamp,   \* main's local 'timestamp'
    all_checks,  \* main's local list 'all_checks'
    csv_exists,  \* os.path.exists(CSV_LOG_FILE)
    csv_file,    \* rows of CSV_LOG_FILE
    html_exists, \* os.path.exists(HTML_REPORT_FILE)
    html_file,   \* content of HTML_REPORT_FILE
    traceback,   \* the uncaught exception that ended the process, if any
    probe,       \* input handed to a routine checked on its own
    result,      \* what that routine returned
    first_read   \* the first sample of /proc/stat, held by the CPU routine
                 \* that is inside time.sleep between its two reads

vars == <<pc, argv, clock, timestamp, all_checks, csv_exists, csv_file,
          html_exists, html_file, traceback, probe, result, first_read>>

mainVars == <<pc, argv, clock, timestamp, all_checks, csv_exists, csv_file,
              html_exists, html_file, traceback, first_read>>

(* no routine is waiting between two reads *)
NoRead == [of |-> ""]

-----------------------------------------------------------------------------
(* Bounds of the model *)

MaxRuns == 2

-----------------------------------------------------------------------------
(* Values *)

NORMAL  == "NORMAL"
ATENCAO == "ATENÇÃO"
FALHA   == "FALHA"

P1 == "P1 (Crítica)"
P2 == "P2 (Alta)"
P3 == "P3 (Média)"
P4 == "P4 (Informativa)"

CPU_THRESHOLD_WARN == 85
MEM_THRESHOLD_WARN == 85
IO_AWAIT_THRESHOLD_WARN == 50
IO_UTIL_THRESHOLD_WARN == 90
BEEGFS_USAGE_THRESHOLD_WARN == 90
SSD_PERCENTAGE_USED_THRESHOLD_WARN == 85
SSD_TEMPERATURE_THRESHOLD_WARN == 70
GPU_TEMP_THRESHOLD_WARN == 85
GPU_UTIL_THRESHOLD_WARN == 90
LOAD_AVERAGE_RATIO_WARN == <<15, 10>>
ZOMBIE_PROCESS_THRESHOLD_WARN == 5

(* tokens *)
I(n) == [k |-> "int", s |-> "", n |-> n, d |-> 1]
D(n) == [k |-> "dec", s |-> "", n |-> n, d |-> 10]
W(s) == [k |-> "str", s |-> s, n |-> 0, d |-> 1]
(* a text that float() reads as n / d and int() rejects: '1e3', '.5', '5.' *)
FL(s, n, d) == [k |-> "flt", s |-> s, n |-> n, d |-> d]
(* a text that int() and float() read as n though it is not the plain *)
(* decimal of n: '1_0', '+5', '007'                                    *)
IT(s, n) == [k |-> "int", s |-> s, n |-> n, d |-> 1]

(* rationals *)
Rat(n, d) == IF d < 0 THEN <<0 - n, 0 - d>> ELSE <<n, d>>
RatOfInt(n) == <<n, 1>>
(* the floats that are no rationals: <<0, 0>> is nan, <<1, 0>> is inf and *)
(* <<-1, 0>> is -inf; every comparison with nan is false                  *)
NAN == <<0, 0>>
INF == <<1, 0>>
NEG_INF == <<0 - 1, 0>>
IsNan(a) == a[1] = 0 /\ a[2] = 0
RatGE(a, b) ==
    /\ ~IsNan(a) /\ ~IsNan(b)
    /\ IF a[2] = 0 /\ b[2] = 0 THEN a[1] >= b[1] ELSE a[1] * b[2] >= b[1] * a[2]
RatEQ(a, b) ==
    /\ ~IsNan(a) /\ ~IsNan(b)
    /\ IF a[2] = 0 /\ b[2] = 0 THEN a[1] = b[1] ELSE a[1] * b[2] = b[1] * a[2]

(* a routine either returns a value or raises: exc = "" is a normal return *)
Return(v) == [exc |-> "", val |-> v]
Raise(e)  == [exc |-> e, val |-> <<>>]

Finding(c, i, s, p, d) ==
    [category |-> c, item |-> i, status |-> s, priority |-> p, details |-> d]

(* int(text) and float(text) *)
py_int(t) == IF t.k = "int" THEN Return(t.n) ELSE Raise("ValueError")
(* the spellings of a word in every mix of upper and lower case: letters is *)
(* the sequence of its letters, each as the set of its two cases            *)
RECURSIVE Spellings(_)
Spellings(letters) ==
    IF letters = <<>> THEN {""}
    ELSE {h \o t : h \in Head(letters), t \in Spellings(Tail(letters))}

NanCases == Spellings(<<{"n", "N"}, {"a", "A"}, {"n", "N"}>>)

InfCases ==
    Spellings(<<{"i", "I"}, {"n", "N"}, {"f", "F"}>>)
        \cup Spellings(<<{"i", "I"}, {"n", "N"}, {"f", "F"}, {"i", "I"}, {"n", "N"},
                         {"i", "I"}, {"t", "T"}, {"y", "Y"}>>)

(* the words float() reads as a number: an optional sign and 'nan', 'inf' or *)
(* 'infinity' in any mix of cases                                            *)
NanWords == {sign \o w : sign \in {"", "+", "-"}, w \in NanCases}
InfWords == {sign \o w : sign \in {"", "+"}, w \in InfCases}
NegInfWords == {"-" \o w : w \in InfCases}

py_float(t) ==
    IF t.k \in {"int", "dec", "flt"} THEN Return(<<t.n, t.d>>)
    ELSE IF t.k = "str" /\ t.s \in NanWords THEN Return(NAN)
    ELSE IF t.k = "str" /\ t.s \in InfWords THEN Return(INF)
    ELSE IF t.k = "str" /\ t.s \in NegInfWords THEN Return(NEG_INF)
    ELSE Raise("ValueError")

(* x / n of Python for a float x and an int n *)
float_div(x, n) ==
    IF n = 0 THEN Raise("ZeroDivisionError")
    ELSE IF x[2] = 0 THEN Return(IF n < 0 THEN <<0 - x[1], 0>> ELSE x)
    ELSE Return(Rat(x[1], x[2] * n))

RECURSIVE SumSeq(_)
SumSeq(s) == IF s = <<>> THEN 0 ELSE Head(s) + SumSeq(Tail(s))

Min(a, b) == IF a < b THEN a ELSE b

(* s[lo:hi] of Python, 0-based, hi exclusive *)
Slice(s, lo, hi) == SubSeq(s, lo + 1, Min(hi, Len(s)))

-----------------------------------------------------------------------------
(* get_status_level *)

(* get_status_level with a strict comparison; C7 tells the two apart *)
get_status_level_strict(value, warn_threshold) ==
    IF RatGE(value, RatOfInt(warn_threshold)) /\ ~RatEQ(value, RatOfInt(warn_threshold))
    THEN [status |-> ATENCAO, msg |-> "Uso excede o limite"]
    ELSE [status |-> NORMAL, msg |-> "Uso"]

get_status_level(value, warn_threshold) ==
    IF RatGE(value, RatOfInt(warn_threshold))
    THEN [status |-> ATENCAO, msg |-> "Uso excede o limite"]
    ELSE [status |-> NORMAL, msg |-> "Uso"]

(* get_cpu_times: file = [err, line]; err # "" when open() fails *)
get_cpu_times(file) ==
    IF file.err # "" THEN Raise("IOError")
    ELSE LET parts == file.line
             fields == Slice(parts, 1, 9)
         IN IF \E j \in 1..Len(fields) : fields[j].k # "int" THEN Raise("ValueError")
            ELSE LET cpu_times == [j \in 1..Len(fields) |-> fields[j].n]
                 IN IF Len(cpu_times) < 4 THEN Raise("IndexError")
                    ELSE Return([total |-> SumSeq(cpu_times), idle |-> cpu_times[4]])

(* n / d of Python on numbers *)
py_div(n, d) == IF d = 0 THEN Raise("ZeroDivisionError") ELSE Return(Rat(n, d))

(* the usage taken from the idle share instead of the busy share; C8 tells *)
(* it from cpu_usage_of                                                    *)
cpu_usage_of_idle(total1, idle1, total2, idle2) ==
    LET delta_total == total2 - total1
        delta_idle == idle2 - idle1
    IN IF delta_total = 0 THEN Return(<<0, 1>>)
       ELSE py_div(100 * delta_idle, delta_total)

(* the usage of the CPU part of check_cpu_memory, from two samples *)
cpu_usage_of(total1, idle1, total2, idle2) ==
    LET delta_total == total2 - total1
        delta_idle == idle2 - idle1
    IN IF delta_total = 0 THEN Return(<<0, 1>>)
       ELSE py_div(100 * (delta_total - delta_idle), delta_total)

(* the body of the try block of the CPU part: the two reads of /proc/stat  *)
(* and the usage computed from them                                        *)
cpu_sample_usage(stat1, stat2) ==
    LET s1 == get_cpu_times(stat1)
        s2 == get_cpu_times(stat2)
    IN IF s1.exc # "" THEN Raise(s1.exc)
       ELSE IF s2.exc # "" THEN Raise(s2.exc)
       ELSE cpu_usage_of(s1.val.total, s1.val.idle, s2.val.total, s2.val.idle)

(* the CPU part with an except clause that leaves IndexError out; C10 tells *)
(* it from cpu_check                                                        *)
cpu_check_narrow(stat1, stat2) ==
    LET cpu_usage == cpu_sample_usage(stat1, stat2)
        caught == {"IOError", "ValueError"}
    IN IF cpu_usage.exc \in caught
       THEN Return(Finding("Recursos de Sistema", "Uso de CPU", FALHA, P1,
                           "Não foi possível ler as estatísticas de CPU do /proc/stat."))
       ELSE IF cpu_usage.exc # "" THEN Raise(cpu_usage.exc)
       ELSE LET lvl == get_status_level(cpu_usage.val, CPU_THRESHOLD_WARN)
            IN Return(Finding("Recursos de Sistema", "Uso de CPU", lvl.status,
                              IF lvl.status = ATENCAO THEN P2 ELSE P4, lvl.msg))

(* the CPU part of check_cpu_memory: stat1, stat2 are the two reads of /proc/stat *)
cpu_check(stat1, stat2) ==
    LET cpu_usage == cpu_sample_usage(stat1, stat2)
        caught == {"IOError", "IndexError", "ValueError"}
    IN IF cpu_usage.exc \in caught
       THEN Return(Finding("Recursos de Sistema", "Uso de CPU", FALHA, P1,
                           "Não foi possível ler as estatísticas de CPU do /proc/stat."))
       ELSE IF cpu_usage.exc # "" THEN Raise(cpu_usage.exc)
       ELSE LET lvl == get_status_level(cpu_usage.val, CPU_THRESHOLD_WARN)
            IN Return(Finding("Recursos de Sistema", "Uso de CPU", lvl.status,
                              IF lvl.status = ATENCAO THEN P2 ELSE P4, lvl.msg))

(* text of a token, and str.rstrip(':') on the words the model uses *)
TokText(t) == IF t.k = "str" \/ t.s # "" THEN t.s ELSE ToString(t.n)

RStripColon(s) ==
    CASE s = "MemTotal:" -> "MemTotal"
      [] s = "MemFree:" -> "MemFree"
      [] s = "MemAvailable:" -> "MemAvailable"
      [] s = "Buffers:" -> "Buffers"
      [] s = "Cached:" -> "Cached"
      [] s = "SReclaimable:" -> "SReclaimable"
      [] OTHER -> s

Max(S) == CHOOSE x \in S : \A y \in S : y <= x

(* mem_info.get(key, 0) after the loop over the lines of /proc/meminfo *)
mem_info_get(lines, key) ==
    LET at == {j \in 1..Len(lines) :
                  Len(lines[j]) >= 2 /\ RStripColon(TokText(lines[j][1])) = key}
    IN IF at = {} THEN 0 ELSE lines[Max(at)][2].n

(* the memory usage with only MemFree taken off the total; C11 tells it *)
(* from mem_usage_of                                                     *)
mem_usage_of_free_only(mem_total, mem_free, buffers, cached, sreclaimable) ==
    LET mem_used == mem_total - mem_free
    IN IF mem_total = 0 THEN <<0, 1>> ELSE Rat(mem_used * 100, mem_total)

(* the memory usage of check_cpu_memory from the parsed fields *)
mem_usage_of(mem_total, mem_free, buffers, cached, sreclaimable) ==
    LET mem_used == mem_total - mem_free - buffers - cached - sreclaimable
    IN IF mem_total = 0 THEN <<0, 1>> ELSE Rat(mem_used * 100, mem_total)

(* the memory part of check_cpu_memory: meminfo = [err, lines] *)
mem_check(meminfo) ==
    LET lines == meminfo.lines
        failed == Finding("Recursos de Sistema", "Uso de Memória", FALHA, P1,
                          "Não foi possível ler as estatísticas de memória do /proc/meminfo.")
    IN IF meminfo.err # "" THEN Return(failed)
       ELSE IF \E j \in 1..Len(lines) : Len(lines[j]) >= 2 /\ lines[j][2].k # "int"
       THEN Return(failed)
       ELSE LET mem_usage == mem_usage_of(mem_info_get(lines, "MemTotal"),
                                          mem_info_get(lines, "MemFree"),
                                          mem_info_get(lines, "Buffers"),
                                          mem_info_get(lines, "Cached"),
                                          mem_info_get(lines, "SReclaimable"))
                lvl == get_status_level(mem_usage, MEM_THRESHOLD_WARN)
            IN Return(Finding("Recursos de Sistema", "Uso de Memória", lvl.status,
                              IF lvl.status = ATENCAO THEN P2 ELSE P4, lvl.msg))

(* check_cpu_memory with one try block around both parts, so that a failure *)
(* of either marks both Findings; C26 tells it from check_cpu_memory        *)
check_cpu_memory_one_try(env) ==
    LET c == cpu_check(env.stat1, env.stat2)
        m == mem_check(env.meminfo)
        failed == c.exc # "" \/ m.exc # "" \/ c.val.status = FALHA \/ m.val.status = FALHA
    IN IF failed
       THEN Return(<<Finding("Recursos de Sistema", "Uso de CPU", FALHA, P1, "Erro"),
                     Finding("Recursos de Sistema", "Uso de Memória", FALHA, P1, "Erro")>>)
       ELSE Return(<<c.val, m.val>>)

(* check_cpu_memory: env = [stat1, stat2, meminfo]; returns the pair as a list *)
check_cpu_memory(env) ==
    LET c == cpu_check(env.stat1, env.stat2)
        m == mem_check(env.meminfo)
    IN IF c.exc # "" THEN Raise(c.exc)
       ELSE IF m.exc # "" THEN Raise(m.exc)
       ELSE Return(<<c.val, m.val>>)

-----------------------------------------------------------------------------
(* run_command: proc = [out, rc] is what the shell child did: its combined  *)
(* output (a sequence of lines, each a sequence of tokens; raw is the text  *)
(* as one string) and the return code subprocess reports (the exit status,  *)
(* or minus the signal number).  pipe.close() gives None for 0 and          *)
(* rc << 8 otherwise.                                                       *)

WIFEXITED(status) == status % 128 = 0
WEXITSTATUS(status) == (status \div 256) % 256

(* run_command giving the wait status as the code, undecoded; C24 tells it *)
(* from run_command                                                       *)
run_command_undecoded(proc) ==
    [out |-> proc.out, raw |-> proc.raw, code |-> IF proc.rc = 0 THEN 0 ELSE proc.rc * 256]

run_command(proc) ==
    LET exit_status == proc.rc * 256
        code == IF proc.rc = 0 THEN 0
                ELSE IF WIFEXITED(exit_status) THEN WEXITSTATUS(exit_status)
                ELSE 1
    IN [out |-> proc.out, raw |-> proc.raw, code |-> code]

(* int(output) of a whole command output *)
py_int_text(out) ==
    IF Len(out) = 1 /\ Len(out[1]) = 1 THEN py_int(out[1][1]) ELSE Raise("ValueError")

-----------------------------------------------------------------------------
(* check_load_average: env = [loadavg = [err, toks], nproc = proc] *)

check_load_average(env) ==
    LET failed == Finding("Recursos de Sistema", "Média de Carga (Load Average)", FALHA, P2,
                          "Não foi possível ler a média de carga de /proc/loadavg.")
        toks == Slice(env.loadavg.toks, 0, 3)
        cmd == run_command(env.nproc)
        cores == IF cmd.code = 0 THEN py_int_text(cmd.out) ELSE Return(1)
    IN IF env.loadavg.err # "" THEN Return(failed)
       ELSE IF Len(toks) # 3 THEN Return(failed)
       ELSE IF cores.exc # "" THEN Return(failed)
       ELSE LET load_1m == py_float(toks[1])
                num_cores == cores.val
            IN IF load_1m.exc # "" THEN Return(failed)
               ELSE IF num_cores = 0 THEN Raise("ZeroDivisionError")
               ELSE LET load_ratio == float_div(load_1m.val, num_cores).val
                        warn == RatGE(load_ratio, LOAD_AVERAGE_RATIO_WARN)
                    IN Return(Finding("Recursos de Sistema", "Média de Carga (Load Average)",
                                      IF warn THEN ATENCAO ELSE NORMAL,
                                      IF warn THEN P2 ELSE P4,
                                      IF warn THEN "Carga (1m, 5m, 15m). A carga de 1 minuto é alta para o número de núcleos."
                                              ELSE "Carga (1m, 5m, 15m)."))

-----------------------------------------------------------------------------
(* check_gpus: env = [list, query], the two nvidia-smi commands.  A line of  *)
(* the query output is the sequence of its comma separated fields.           *)

gpu_line(parts) ==
    LET bad == Finding("Recursos de GPU", "Análise de GPU", FALHA, P2,
                       "Não foi possível analisar a linha de dados da GPU")
    IN IF Len(parts) # 6 THEN bad
       ELSE IF \E j \in 3..6 : py_float(parts[j]).exc # "" THEN bad
       ELSE LET temp == py_float(parts[3]).val
                util == py_float(parts[4]).val
                hot == RatGE(temp, RatOfInt(GPU_TEMP_THRESHOLD_WARN))
                busy == RatGE(util, RatOfInt(GPU_UTIL_THRESHOLD_WARN))
                warn == hot \/ busy
            IN Finding("Recursos de GPU",
                       "GPU " \o TokText(parts[1]) \o ": " \o TokText(parts[2]),
                       IF warn THEN ATENCAO ELSE NORMAL,
                       IF warn THEN P2 ELSE P4,
                       IF ~warn THEN "Temp, Uso, Memória"
                       ELSE IF hot /\ busy THEN "Temp (Limite), Uso (Limite)"
                       ELSE IF hot THEN "Temp (Limite)" ELSE "Uso (Limite)")

check_gpus(env) ==
    LET probe_cmd == run_command(env.list)
        cmd == run_command(env.query)
    IN IF probe_cmd.code # 0 THEN Return(<<>>)
       ELSE IF cmd.code # 0
       THEN Return(<<Finding("Recursos de GPU", "Execução do nvidia-smi", FALHA, P2,
                             "Não foi possível obter dados das GPUs. Saída:\n" \o cmd.raw)>>)
       ELSE Return([j \in 1..Len(cmd.out) |-> gpu_line(cmd.out[j])])

-----------------------------------------------------------------------------
(* check_system_errors: env = [dmesg], the dmesg | grep pipeline *)

check_system_errors(env) ==
    LET cmd == run_command(env.dmesg)
    IN IF cmd.code = 0 /\ cmd.raw # ""
       THEN Return(Finding("Hardware e S.O.", "Logs do Kernel (dmesg)", ATENCAO, P2,
                           "Encontradas possíveis falhas de hardware ou erros críticos no dmesg:\n"
                               \o cmd.raw))
       ELSE Return(Finding("Hardware e S.O.", "Logs do Kernel (dmesg)", NORMAL, P4,
                           "Nenhum erro crítico recente encontrado no dmesg."))

-----------------------------------------------------------------------------
(* check_zombie_processes: env = [ps], the ps | grep -c pipeline *)

check_zombie_processes(env) ==
    LET cmd == run_command(env.ps)
        n == py_int_text(cmd.out)
    IN IF cmd.code \notin {0, 1}
       THEN Return(Finding("Saúde do S.O.", "Processos Zumbis", FALHA, P3,
                           "Falha ao executar o comando para verificar processos zumbis. Saída: "
                               \o cmd.raw))
       ELSE IF n.exc # ""
       THEN Return(Finding("Saúde do S.O.", "Processos Zumbis", FALHA, P3,
                           "Não foi possível converter a contagem de zumbis para número. Saída: "
                               \o cmd.raw))
       ELSE LET warn == n.val >= ZOMBIE_PROCESS_THRESHOLD_WARN
            IN Return(Finding("Saúde do S.O.", "Processos Zumbis",
                              IF warn THEN ATENCAO ELSE NORMAL,
                              IF warn THEN P3 ELSE P4,
                              IF warn THEN "Encontrados processos zumbis. O número excede o limite."
                                      ELSE "Encontrados processos zumbis."))

-----------------------------------------------------------------------------
(* check_uptime: env = [uptime, now].  The output of 'uptime -s' is one      *)
(* token: an "int" token is a well formed boot date, given in seconds, any   *)
(* other output does not parse.  now is datetime.now() in seconds.           *)

UPTIME_MIN_SECONDS == 86400

check_uptime(env) ==
    LET cmd == run_command(env.uptime)
        boot_time == py_int_text(cmd.out)
    IN IF cmd.code # 0
       THEN Return(Finding("Saúde do S.O.", "Tempo de Atividade (Uptime)", FALHA, P3,
                           "Não foi possível obter o uptime do sistema. Saída: " \o cmd.raw))
       ELSE IF boot_time.exc # ""
       THEN Return(Finding("Saúde do S.O.", "Tempo de Atividade (Uptime)", FALHA, P3,
                           "Não foi possível analisar a data de boot: " \o cmd.raw))
       ELSE IF env.now - boot_time.val < UPTIME_MIN_SECONDS
       THEN Return(Finding("Saúde do S.O.", "Tempo de Atividade (Uptime)", ATENCAO, P3,
                           "O servidor foi reiniciado nas últimas 24 horas."))
       ELSE Return(Finding("Saúde do S.O.", "Tempo de Atividade (Uptime)", NORMAL, P4,
                           "O servidor está ativo há mais de 24 horas."))

-----------------------------------------------------------------------------
(* Outputs made of 'key: value' lines (ibstat, systemctl status).  Such a    *)
(* line is [head, val]: the stripped line up to its first ':' and the        *)
(* stripped text after it.                                                   *)

KV(h, v) == [head |-> h, val |-> v]

(* stripped_line.startswith('Port ') *)
StartsWithPort(line) == line.head \in {"Port 1", "Port 2", "Port 3", "Port GUID"}

RECURSIVE JoinStr(_)
JoinStr(ss) == IF ss = <<>> THEN "" ELSE Head(ss) \o JoinStr(Tail(ss))

(* what one line of ibstat appends to details_list; port is current_port     *)
(* before the line ("None" at first).  A piece is [comma, label, val]: it     *)
(* begins with ", " or not, then comes the label, a blank and the value of    *)
(* the line.  NoPiece: the line appends nothing.                              *)
NoPiece == [comma |-> FALSE, label |-> "", val |-> ""]

ib_piece(line, port) ==
    IF StartsWithPort(line) THEN NoPiece
    ELSE IF line.head = "State"
    THEN [comma |-> FALSE, label |-> port \o ": Estado:", val |-> line.val]
    ELSE IF line.head = "Physical state"
    THEN [comma |-> TRUE, label |-> "Estado Físico:", val |-> line.val]
    ELSE IF line.head = "Rate"
    THEN [comma |-> TRUE, label |-> "Taxa:", val |-> line.val]
    ELSE NoPiece

RECURSIVE ib_scan(_, _, _)
ib_scan(lines, port, acc) ==
    IF lines = <<>> THEN acc
    ELSE LET line == Head(lines)
             piece == ib_piece(line, port)
             bad == \/ (~StartsWithPort(line) /\ line.head = "State" /\ line.val # "Active")
                    \/ (~StartsWithPort(line) /\ line.head = "Physical state"
                            /\ line.val # "LinkUp")
         IN ib_scan(Tail(lines),
                    IF StartsWithPort(line) THEN line.head ELSE port,
                    [status |-> IF bad THEN ATENCAO ELSE acc.status,
                     details_list |-> IF piece = NoPiece THEN acc.details_list
                                      ELSE Append(acc.details_list, piece)])

(* "".join(details_list).replace(", ", "\n", 1).strip(), as the texts to    *)
(* join.  No label and no value of ibstat holds ", ", so the first ", " of   *)
(* the joined text is the one that begins the first piece with a comma: it   *)
(* becomes a line break, which strip() removes when that piece is the first  *)
(* of the list.  The joined text ends with the value of the last piece, or,  *)
(* when that value is empty, with the blank after its label, which strip()   *)
(* removes.                                                                  *)
ReplaceFirstComma(ps) ==
    LET commas == {j \in 1..Len(ps) : ps[j].comma}
        first == IF commas = {} THEN 0 ELSE CHOOSE j \in commas : \A i \in commas : j <= i
        sep(j) == IF ~ps[j].comma THEN ""
                  ELSE IF j # first THEN ", "
                  ELSE IF j = 1 THEN "" ELSE "\n"
        text(j) == IF ps[j].val = "" /\ j = Len(ps) THEN ps[j].label
                   ELSE ps[j].label \o " " \o ps[j].val
    IN [j \in 1..Len(ps) |-> sep(j) \o text(j)]

(* the first 'Ca ... -> SW ... "name"' line of ibnetdiscover; a line is        *)
(* [ca, sw, name]: it starts with 'Ca', it holds '-> SW', and the text between  *)
(* the first two double quotes after '->' ("" when there is no quote)           *)
RECURSIVE ib_switch(_)
ib_switch(lines) ==
    IF lines = <<>> THEN "Informação do switch não disponível."
    ELSE IF Head(lines).ca /\ Head(lines).sw /\ Head(lines).quoted
    THEN "Conectado ao Switch: " \o Head(lines).name
    ELSE ib_switch(Tail(lines))

(* check_infiniband raising the status when ibnetdiscover shows no peer; C27 *)
(* tells it from check_infiniband                                            *)
check_infiniband_topology_status(env) ==
    LET v == run_command(env.version)
        st == run_command(env.ibstat)
        net == run_command(env.ibnetdiscover)
        scan == ib_scan(st.out, "None", [status |-> NORMAL, details_list |-> <<>>])
        none == scan.details_list = <<>>
        ib_health_details ==
            IF none THEN "Não foi possível extrair detalhes da porta do ibstat."
            ELSE JoinStr(ReplaceFirstComma(scan.details_list))
        switch_details == IF net.code = 0 THEN ib_switch(net.out)
                          ELSE "Informação do switch não disponível."
        status == IF none \/ switch_details = "Informação do switch não disponível."
                  THEN FALHA ELSE scan.status
    IN IF v.code # 0 THEN Return(<<>>)
       ELSE IF st.code # 0
       THEN Return(<<Finding("Rede de Alta Performance", "InfiniBand Status", FALHA, P1,
                             "Falha ao executar 'ibstat'. Saída: " \o st.raw)>>)
       ELSE Return(<<Finding("Rede de Alta Performance", "InfiniBand Health & Topology",
                             status,
                             IF status = FALHA THEN P1
                             ELSE IF status = ATENCAO THEN P2 ELSE P4,
                             ib_health_details \o "\n" \o switch_details)>>)

(* check_infiniband without the 'ibstat -V' probe; C16 tells it from *)
(* check_infiniband                                                  *)
check_infiniband_unprobed(env) ==
    LET st == run_command(env.ibstat)
        net == run_command(env.ibnetdiscover)
        scan == ib_scan(st.out, "None", [status |-> NORMAL, details_list |-> <<>>])
        none == scan.details_list = <<>>
        ib_health_details ==
            IF none THEN "Não foi possível extrair detalhes da porta do ibstat."
            ELSE JoinStr(ReplaceFirstComma(scan.details_list))
        status == IF none THEN FALHA ELSE scan.status
        switch_details == IF net.code = 0 THEN ib_switch(net.out)
                          ELSE "Informação do switch não disponível."
    IN IF st.code # 0
       THEN Return(<<Finding("Rede de Alta Performance", "InfiniBand Status", FALHA, P1,
                             "Falha ao executar 'ibstat'. Saída: " \o st.raw)>>)
       ELSE Return(<<Finding("Rede de Alta Performance", "InfiniBand Health & Topology",
                             status,
                             IF status = FALHA THEN P1
                             ELSE IF status = ATENCAO THEN P2 ELSE P4,
                             ib_health_details \o "\n" \o switch_details)>>)

(* check_infiniband: env = [version, ibstat, ibnetdiscover]; returns the list  *)
(* of what main appends: nothing for None, else the one Finding               *)
check_infiniband(env) ==
    LET v == run_command(env.version)
        st == run_command(env.ibstat)
        net == run_command(env.ibnetdiscover)
        scan == ib_scan(st.out, "None", [status |-> NORMAL, details_list |-> <<>>])
        none == scan.details_list = <<>>
        ib_health_details ==
            IF none THEN "Não foi possível extrair detalhes da porta do ibstat."
            ELSE JoinStr(ReplaceFirstComma(scan.details_list))
        status == IF none THEN FALHA ELSE scan.status
        switch_details == IF net.code = 0 THEN ib_switch(net.out)
                          ELSE "Informação do switch não disponível."
    IN IF v.code # 0 THEN Return(<<>>)
       ELSE IF st.code # 0
       THEN Return(<<Finding("Rede de Alta Performance", "InfiniBand Status", FALHA, P1,
                             "Falha ao executar 'ibstat'. Saída: " \o st.raw)>>)
       ELSE Return(<<Finding("Rede de Alta Performance", "InfiniBand Health & Topology",
                             status,
                             IF status = FALHA THEN P1
                             ELSE IF status = ATENCAO THEN P2 ELSE P4,
                             ib_health_details \o "\n" \o switch_details)>>)

(* the commands check_infiniband runs, in order *)
check_infiniband_commands(env) ==
    IF run_command(env.version).code # 0 THEN <<"ibstat -V">>
    ELSE IF run_command(env.ibstat).code # 0 THEN <<"ibstat -V", "ibstat">>
    ELSE <<"ibstat -V", "ibstat", "ibnetdiscover">>

-----------------------------------------------------------------------------
(* check_services: env = [services], one systemctl status outcome per entry   *)
(* of SERVICES_TO_CHECK                                                       *)

SERVICES_TO_CHECK == <<"beegfs-client", "grafana-server", "mysql", "pacemaker", "cmdaemon">>

(* the text of a 'key: value' line *)
LineText(line) == IF line.val = "" THEN line.head ELSE line.head \o ": " \o line.val

(* the lines of the model that contain "Loaded: not-found", and those that *)
(* contain "could not be found"                                            *)
LoadedNotFoundTexts == {"Loaded: not-found (Reason: No such file or directory)"}

CouldNotBeFoundTexts ==
    {"Unit could not be found.",
     "Dec 09 00: 00:01 node01 mysqld[812]: Table 'jobs' could not be found"}

(* "Loaded: not-found" in output or "could not be found" in output *)
service_absent(lines) ==
    \E j \in 1..Len(lines) :
        \/ LineText(lines[j]) \in LoadedNotFoundTexts
        \/ LineText(lines[j]) \in CouldNotBeFoundTexts

(* "\n".join(lines) *)
RECURSIVE JoinLines(_)
JoinLines(ss) ==
    IF ss = <<>> THEN ""
    ELSE IF Len(ss) = 1 THEN Head(ss)
    ELSE Head(ss) \o "\n" \o JoinLines(Tail(ss))

(* "\n".join(output.splitlines()[-5:]) *)
details_lines(lines) ==
    LET last == SubSeq(lines, Max({1, Len(lines) - 4}), Len(lines))
    IN JoinLines([j \in 1..Len(last) |-> LineText(last[j])])

(* "active (running)" in stripped_line *)
says_running(line) == line.val \in {"active (running)", "active (running) since today"}

service_status(lines) ==
    LET at == {j \in 1..Len(lines) : lines[j].head = "Active"}
        first == CHOOSE j \in at : \A i \in at : j <= i
    IN IF at # {} /\ says_running(lines[first]) THEN NORMAL ELSE FALHA

RECURSIVE check_services_from(_, _)
check_services_from(env, j) ==
    IF j > Len(SERVICES_TO_CHECK) THEN <<>>
    ELSE LET service == SERVICES_TO_CHECK[j]
             cmd == run_command(env.services[j])
             status == service_status(cmd.out)
             rest == check_services_from(env, j + 1)
         IN IF service_absent(cmd.out) THEN rest
            ELSE <<Finding("Serviços Essenciais", "Serviço: " \o service, status,
                           IF status = NORMAL THEN P4 ELSE P1,
                           IF status = NORMAL
                           THEN "O serviço " \o service \o " está ativo e rodando."
                           ELSE "O serviço " \o service
                                  \o " está inativo ou em estado de falha.\nDetalhes:\n"
                                  \o details_lines(cmd.out))>> \o rest

check_services(env) == Return(check_services_from(env, 1))

-----------------------------------------------------------------------------
(* check_network_errors: env = [netdev = [err, lines]]; a line of             *)
(* /proc/net/dev is the sequence of its tokens                                *)

INTERFACES_TO_IGNORE == <<"lo", "virbr">>

(* parts[0].strip(':') *)
StripColons(s) ==
    CASE s = "lo:" -> "lo"
      [] s = "eth0:" -> "eth0"
      [] s = "ib0:" -> "ib0"
      [] s = "virbr0:" -> "virbr0"
      [] s = "lom1:" -> "lom1"
      [] OTHER -> s

(* interface.startswith(prefix) *)
StartsWith(s, prefix) ==
    \/ s = prefix
    \/ (prefix = "lo" /\ s \in {"lom1", "lo0"})
    \/ (prefix = "virbr" /\ s \in {"virbr0", "virbr1"})
    \/ (prefix = "loop" /\ s \in {"loop0", "loop1"})
    \/ (prefix = "ram" /\ s \in {"ram0"})
    \/ (prefix = "sr" /\ s \in {"sr0"})

(* a line handled without the test against INTERFACES_TO_IGNORE; C30 tells *)
(* it from net_line                                                       *)
net_line_unfiltered(parts) ==
    IF Len(parts) < 13 THEN <<>>
    ELSE IF \E j \in {4, 5, 12, 13} : parts[j].k # "int" THEN <<>>
    ELSE IF parts[4].n + parts[12].n > 0 \/ parts[5].n + parts[13].n > 0
    THEN <<Finding("Saúde da Rede", "Interface " \o StripColons(TokText(parts[1])),
                   ATENCAO, P3, "Erros, Descartados")>>
    ELSE <<>>

net_line(parts) ==
    IF Len(parts) = 0 THEN <<>>
    ELSE LET interface == StripColons(TokText(parts[1]))
         IN IF \E j \in 1..Len(INTERFACES_TO_IGNORE) :
                   StartsWith(interface, INTERFACES_TO_IGNORE[j]) THEN <<>>
            ELSE IF Len(parts) >= 4 /\ parts[4].k # "int" THEN <<>>
            ELSE IF Len(parts) >= 5 /\ parts[5].k # "int" THEN <<>>
            ELSE IF Len(parts) >= 12 /\ parts[12].k # "int" THEN <<>>
            ELSE IF Len(parts) < 13 THEN <<>>
            ELSE IF parts[13].k # "int" THEN <<>>
            ELSE LET total_errors == parts[4].n + parts[12].n
                     total_drops == parts[5].n + parts[13].n
                 IN IF total_errors > 0 \/ total_drops > 0
                    THEN <<Finding("Saúde da Rede", "Interface " \o interface, ATENCAO, P3,
                                   "Erros, Descartados")>>
                    ELSE <<>>

RECURSIVE net_lines(_)
net_lines(lines) ==
    IF lines = <<>> THEN <<>> ELSE net_line(Head(lines)) \o net_lines(Tail(lines))

check_network_errors(env) ==
    LET results == net_lines(Slice(env.netdev.lines, 2, Len(env.netdev.lines)))
    IN IF env.netdev.err # ""
       THEN Return(<<Finding("Saúde da Rede", "Interfaces de Rede", FALHA, P3,
                             "Não foi possível ler /proc/net/dev.")>>)
       ELSE IF results = <<>>
       THEN Return(<<Finding("Saúde da Rede", "Interfaces de Rede", NORMAL, P4,
                             "Nenhum erro ou pacote descartado encontrado nas interfaces.")>>)
       ELSE Return(results)

-----------------------------------------------------------------------------
(* check_disk_health: env = [version, ls, disk].  ls lists one device name   *)
(* per line; disk[j] holds the commands run for the device of line j:        *)
(* health (smartctl -H; its out is the set of the phrases "PASSED",          *)
(* "FAILED", "Disabled", "Unavailable" the output contains), rotational      *)
(* (cat .../rotational) and attrs (smartctl -A; a line is [name, last]: the  *)
(* attribute the line names and its last token).                             *)

ssd_warning(line) ==
    IF line.name = "Percentage Used"
    THEN (IF py_float(line.last).exc = ""
             /\ RatGE(py_float(line.last).val, RatOfInt(SSD_PERCENTAGE_USED_THRESHOLD_WARN))
          THEN <<"Desgaste excede o limite.">> ELSE <<>>)
    ELSE IF line.name = "Temperature_Celsius"
    THEN (IF py_int(line.last).exc = ""
             /\ py_int(line.last).val >= SSD_TEMPERATURE_THRESHOLD_WARN
          THEN <<"Temperatura excede o limite.">> ELSE <<>>)
    ELSE IF line.name = "Critical Warning"
    THEN (IF py_int(line.last).exc = "" /\ py_int(line.last).val # 0
          THEN <<"Alerta Crítico de hardware S.M.A.R.T. ativo.">> ELSE <<>>)
    ELSE <<>>

RECURSIVE ssd_warnings(_)
ssd_warnings(lines) ==
    IF lines = <<>> THEN <<>> ELSE ssd_warning(Head(lines)) \o ssd_warnings(Tail(lines))

RECURSIVE JoinSp(_)
JoinSp(ss) == IF ss = <<>> THEN "" ELSE " " \o Head(ss) \o JoinSp(Tail(ss))

(* the SSD pass applied whatever the status found before it; C29 tells it *)
(* from disk_finding                                                     *)
disk_finding_unguarded(disk, d) ==
    LET device_path == "/dev/" \o disk
        smart == run_command(d.health)
        first ==
            IF "PASSED" \in smart.out THEN [status |-> NORMAL, priority |-> P4]
            ELSE IF "FAILED" \in smart.out THEN [status |-> FALHA, priority |-> P1]
            ELSE IF "Disabled" \in smart.out THEN [status |-> ATENCAO, priority |-> P3]
            ELSE IF "Unavailable" \in smart.out THEN [status |-> NORMAL, priority |-> P4]
            ELSE [status |-> FALHA, priority |-> P2]
        is_ssd == run_command(d.rotational).raw = "0"
        warnings == ssd_warnings(run_command(d.attrs).out)
    IN IF is_ssd /\ warnings # <<>>
       THEN Finding("Saúde dos Discos (S.M.A.R.T.)", "Disco " \o device_path, ATENCAO, P2,
                    JoinSp(warnings))
       ELSE Finding("Saúde dos Discos (S.M.A.R.T.)", "Disco " \o device_path,
                    first.status, first.priority, "")

disk_finding(disk, d) ==
    LET device_path == "/dev/" \o disk
        smart == run_command(d.health)
        first ==
            IF "PASSED" \in smart.out
            THEN [status |-> NORMAL, priority |-> P4,
                  details |-> "O teste de autoavaliação S.M.A.R.T. foi aprovado."]
            ELSE IF "FAILED" \in smart.out
            THEN [status |-> FALHA, priority |-> P1,
                  details |-> "O teste de autoavaliação S.M.A.R.T. FALHOU. Recomenda-se a substituição do disco."]
            ELSE IF "Disabled" \in smart.out
            THEN [status |-> ATENCAO, priority |-> P3,
                  details |-> "O suporte a S.M.A.R.T. está desativado neste dispositivo."]
            ELSE IF "Unavailable" \in smart.out
            THEN [status |-> NORMAL, priority |-> P4,
                  details |-> "O dispositivo não suporta S.M.A.R.T."]
            ELSE IF smart.code # 0
            THEN [status |-> FALHA, priority |-> P2,
                  details |-> "Erro ao executar smartctl para " \o device_path
                                \o ". Verifique as permissões.\nSaída:\n" \o smart.raw]
            ELSE [status |-> FALHA, priority |-> P2,
                  details |-> "Não foi possível determinar o estado S.M.A.R.T. para "
                                \o device_path \o ".\nSaída:\n" \o smart.raw]
        is_ssd == run_command(d.rotational).raw = "0"
        warnings == ssd_warnings(run_command(d.attrs).out)
    IN IF is_ssd /\ first.status = NORMAL /\ warnings # <<>>
       THEN Finding("Saúde dos Discos (S.M.A.R.T.)", "Disco " \o device_path, ATENCAO, P2,
                    first.details \o JoinSp(warnings))
       ELSE Finding("Saúde dos Discos (S.M.A.R.T.)", "Disco " \o device_path,
                    first.status, first.priority, first.details)

RECURSIVE disk_findings(_, _)
disk_findings(env, j) ==
    IF j > Len(env.ls.out) THEN <<>>
    ELSE LET d == TokText(env.ls.out[j][1])
         IN (IF StartsWith(d, "loop") \/ StartsWith(d, "ram") \/ StartsWith(d, "sr")
             THEN <<>> ELSE <<disk_finding(d, env.disk[j])>>)
            \o disk_findings(env, j + 1)

check_disk_health(env) ==
    LET v == run_command(env.version)
        ls == run_command(env.ls)
    IN IF v.code # 0 THEN Return(<<>>)
       ELSE IF ls.code # 0
       THEN Return(<<Finding("Saúde dos Discos (S.M.A.R.T.)", "Listagem de Discos", FALHA, P2,
                             "Não foi possível listar os dispositivos de bloco. Saída: "
                                 \o ls.raw)>>)
       ELSE Return(disk_findings(env, 1))

-----------------------------------------------------------------------------
(* find_beegfs_mounts: mount = the 'mount' command; a line of its output is  *)
(* [on_beegfs, mp]: the line holds ' on /BeeGFS', and the text between its   *)
(* first ' on ' and the following ' type '                                   *)

IsBeeGFSPath(mp) == mp \in {"/BeeGFS", "/BeeGFS/storage", "/BeeGFS/meta"}

RECURSIVE beegfs_lines(_)
beegfs_lines(lines) ==
    IF lines = <<>> THEN <<>>
    ELSE (IF Head(lines).on_beegfs /\ IsBeeGFSPath(Head(lines).mp)
          THEN <<Head(lines).mp>> ELSE <<>>) \o beegfs_lines(Tail(lines))

find_beegfs_mounts(mount) ==
    LET cmd == run_command(mount)
    IN IF cmd.code # 0 THEN <<>> ELSE beegfs_lines(cmd.out)

-----------------------------------------------------------------------------
(* check_disk_io: env = [mount, iostat_version, iostat, df, lsblk].  The out *)
(* of iostat is the lines of its last report block, each the sequence of its *)
(* tokens; df[m] and lsblk[m] are the commands run for the m-th mount.       *)

(* header.index(name), 0 when name is not in the header *)
IndexOf(header, name) ==
    LET at == {j \in 1..Len(header) : TokText(header[j]) = name}
    IN IF at = {} THEN 0 ELSE CHOOSE j \in at : \A i \in at : j <= i

(* os.path.basename *)
Basename(path) ==
    CASE path = "/dev/sdb1" -> "sdb1"
      [] path = "/dev/mapper/vg-storage" -> "vg-storage"
      [] OTHER -> path

(* the Finding for the iostat line 'stats' of a device *)
io_finding(stats, item, r_idx, w_idx, a_idx, util_idx) ==
    LET extended == r_idx > 0 /\ w_idx > 0
        wanted == IF extended THEN {util_idx, r_idx, w_idx} ELSE {util_idx, a_idx}
        bad == \E j \in wanted : j > Len(stats) \/ py_float(stats[j]).exc # ""
        limit == RatOfInt(IO_AWAIT_THRESHOLD_WARN)
    IN IF bad
       THEN Finding("Performance de Disco (I/O)", item, FALHA, P2,
                    "Não foi possível extrair as estatísticas de I/O da linha")
       ELSE LET slow_r == extended /\ RatGE(py_float(stats[r_idx]).val, limit)
                slow_w == extended /\ RatGE(py_float(stats[w_idx]).val, limit)
                slow == ~extended /\ RatGE(py_float(stats[a_idx]).val, limit)
                busy == RatGE(py_float(stats[util_idx]).val, RatOfInt(IO_UTIL_THRESHOLD_WARN))
                warn == slow_r \/ slow_w \/ slow \/ busy
            IN Finding("Performance de Disco (I/O)", item,
                       IF warn THEN ATENCAO ELSE NORMAL,
                       IF warn THEN P2 ELSE P4,
                       IF ~warn THEN "Latência, Utilização."
                       ELSE JoinStr((IF slow_r THEN <<"Latência de leitura excede o limite. ">> ELSE <<>>)
                                \o (IF slow_w THEN <<"Latência de escrita excede o limite. ">> ELSE <<>>)
                                \o (IF slow THEN <<"Latência excede o limite. ">> ELSE <<>>)
                                \o (IF busy THEN <<"Utilização excede o limite.">> ELSE <<>>)))

RECURSIVE io_mounts(_, _, _, _, _, _, _, _)
io_mounts(env, mounts, m, data, r_idx, w_idx, a_idx, util_idx) ==
    IF m > Len(mounts) THEN <<>>
    ELSE LET df == run_command(env.df[m])
             lsblk == run_command(env.lsblk[m])
             rest == io_mounts(env, mounts, m + 1, data, r_idx, w_idx, a_idx, util_idx)
         IN IF df.code # 0 \/ Len(df.out) < 2 THEN rest
            ELSE LET device_path == TokText(df.out[Len(df.out)][1])
                     device_name == IF lsblk.code = 0 /\ lsblk.raw # ""
                                    THEN lsblk.raw ELSE Basename(device_path)
                     item == "Disco " \o device_name \o " (" \o mounts[m] \o ")"
                     at == {j \in 1..Len(data) :
                               Len(data[j]) > 0 /\ TokText(data[j][1]) = device_name}
                 IN (IF at = {}
                     THEN <<Finding("Performance de Disco (I/O)", item, ATENCAO, P3,
                                    "O dispositivo não foi localizado na saída do iostat.")>>
                     ELSE <<io_finding(data[CHOOSE j \in at : \A i \in at : j <= i], item,
                                       r_idx, w_idx, a_idx, util_idx)>>) \o rest

check_disk_io(env) ==
    LET beegfs_mounts == find_beegfs_mounts(env.mount)
        v == run_command(env.iostat_version)
        cmd == run_command(env.iostat)
        lines == cmd.out
        heads == {j \in 1..Len(lines) :
                     Len(lines[j]) > 0 /\ TokText(lines[j][1]) \in {"Device", "Device:"}}
        header == IF heads = {} THEN <<>>
                  ELSE lines[CHOOSE j \in heads : \A i \in heads : j <= i]
        r_idx == IndexOf(header, "r_await")
        w_idx == IndexOf(header, "w_await")
        a_idx == IndexOf(header, "await")
        util_idx == IndexOf(header, "%util")
        unparsed == \/ heads = {}
                    \/ (~(r_idx > 0 /\ w_idx > 0) /\ a_idx = 0)
                    \/ util_idx = 0
        data == IF heads = {} THEN <<>>
                ELSE SubSeq(lines, (CHOOSE j \in heads : \A i \in heads : j <= i) + 1, Len(lines))
    IN IF v.code # 0 THEN Return(<<>>)
       ELSE IF beegfs_mounts = <<>> THEN Return(<<>>)
       ELSE IF cmd.code # 0
       THEN Return(<<Finding("Performance de Disco (I/O)", "Execução do iostat", FALHA, P2,
                             "Não foi possível executar o iostat. Saída: " \o cmd.raw)>>)
       ELSE IF unparsed
       THEN Return(<<Finding("Performance de Disco (I/O)", "Análise da saída do iostat",
                             FALHA, P2,
                             "Não foi possível analisar a saída do iostat. Saída completa:\n"
                                 \o cmd.raw)>>)
       ELSE Return(io_mounts(env, beegfs_mounts, 1, data, r_idx, w_idx, a_idx, util_idx))

-----------------------------------------------------------------------------
(* check_beegfs_disk_usage: env = [mount, dfk]; dfk[m] is 'df -k' for the    *)
(* m-th mount.  A token [k = "pct"] is a number followed by '%'.             *)

P(n) == [k |-> "pct", s |-> "", n |-> n, d |-> 1]

(* text.replace('%', '') *)
StripPercent(t) == IF t.k = "pct" THEN [t EXCEPT !.k = IF t.d = 1 THEN "int" ELSE "dec"] ELSE t

(* the parsed second line of df -k, or a raise *)
df_line(cmd) ==
    IF Len(cmd.out) < 2 THEN Raise("IndexError")
    ELSE LET parts == cmd.out[2]
         IN IF \E j \in 2..4 : j <= Len(parts) /\ py_int(parts[j]).exc # ""
            THEN Raise("ValueError")
            ELSE IF Len(parts) < 5 THEN Raise("IndexError")
            ELSE IF py_float(StripPercent(parts[5])).exc # "" THEN Raise("ValueError")
            ELSE Return([size |-> parts[2].n, used |-> parts[3].n, available |-> parts[4].n,
                         percent |-> py_float(StripPercent(parts[5])).val])

RECURSIVE beegfs_parts(_, _, _)
beegfs_parts(env, mounts, m) ==
    IF m > Len(mounts) THEN [size |-> 0, used |-> 0, results |-> <<>>]
    ELSE LET cmd == run_command(env.dfk[m])
             line == df_line(cmd)
             rest == beegfs_parts(env, mounts, m + 1)
         IN IF cmd.code # 0 \/ line.exc # "" THEN rest
            ELSE LET warn == RatGE(line.val.percent, RatOfInt(BEEGFS_USAGE_THRESHOLD_WARN))
                 IN [size |-> line.val.size + rest.size,
                     used |-> line.val.used + rest.used,
                     results |-> <<Finding("Uso de Disco BeeGFS",
                                           "Uso da Partição " \o mounts[m],
                                           IF warn THEN ATENCAO ELSE NORMAL,
                                           IF warn THEN P2 ELSE P4,
                                           "Uso, Total, Usado, Disponível.")>> \o rest.results]

check_beegfs_disk_usage(env) ==
    LET beegfs_mounts == find_beegfs_mounts(env.mount)
        acc == beegfs_parts(env, beegfs_mounts, 1)
        warn == RatGE(Rat(acc.used * 100, acc.size), RatOfInt(BEEGFS_USAGE_THRESHOLD_WARN))
    IN IF beegfs_mounts = <<>> THEN Return(<<>>)
       ELSE IF acc.size = 0
       THEN Return(Append(acc.results,
                          Finding("Uso de Disco BeeGFS", "Uso Agregado das Partições", FALHA, P2,
                                  "Não foi possível obter informações de uso de nenhuma partição BeeGFS.")))
       ELSE Return(Append(acc.results,
                          Finding("Uso de Disco BeeGFS", "Uso Agregado das Partições",
                                  IF warn THEN ATENCAO ELSE NORMAL,
                                  IF warn THEN P2 ELSE P4,
                                  "Uso total, Total, Usado, Disponível.")))

-----------------------------------------------------------------------------
(* The output files *)

CSV_HEADER == <<"timestamp", "category", "item", "status", "priority", "details">>

(* datetime.now().strftime(...) at clock value c *)
strftime(c) == "2025-12-09 00:00:0" \o ToString(c)

csv_row(check, ts) ==
    <<ts, check.category, check.item, check.status, check.priority, check.details>>

(* rows for the Findings that are not NORMAL only; C3 tells it from csv_rows *)
csv_rows_issues(checks, ts) ==
    LET kept == SelectSeq(checks, LAMBDA c : c.status # NORMAL)
    IN [j \in 1..Len(kept) |-> csv_row(kept[j], ts)]

(* the rows log_to_csv writes, in order *)
csv_rows(checks, ts) == [j \in 1..Len(checks) |-> csv_row(checks[j], ts)]

(* Python's order of the strings the report sorts: LexOrder lists the category *)
(* and item texts of the model by code point                                   *)
LexOrder == <<
    "Disco /dev/nvme0n1", "Disco /dev/sda", "Disco /dev/sdb",
    "Disco sdb1 (/mnt/BeeGFS/storage)",
    "GPU 0: NVIDIA A100", "GPU 1: NVIDIA A100",
    "Hardware e S.O.",
    "InfiniBand Health & Topology", "InfiniBand Status",
    "Interface eth0", "Interfaces de Rede",
    "Logs do Kernel (dmesg)",
    "Média de Carga (Load Average)",
    "Performance de Disco (I/O)",
    "Processos Zumbis",
    "Recursos de GPU", "Recursos de Sistema", "Rede de Alta Performance",
    "Saúde da Rede", "Saúde do S.O.", "Saúde dos Discos (S.M.A.R.T.)",
    "Serviço: beegfs-client", "Serviço: cmdaemon", "Serviço: grafana-server",
    "Serviço: mysql", "Serviço: pacemaker",
    "Serviços Essenciais",
    "Tempo de Atividade (Uptime)",
    "Uso Agregado das Partições", "Uso da Partição /BeeGFS/storage",
    "Uso de CPU", "Uso de Disco BeeGFS", "Uso de Memória" >>

StrRank(s) == CHOOSE j \in 1..Len(LexOrder) : LexOrder[j] = s

StrLess(a, b) == StrRank(a) < StrRank(b)

(* grouped_checks: the categories in order of first appearance *)
RECURSIVE Categories(_, _)
Categories(checks, seen) ==
    IF checks = <<>> THEN seen
    ELSE Categories(Tail(checks),
                    IF \E j \in 1..Len(seen) : seen[j] = Head(checks).category
                    THEN seen ELSE Append(seen, Head(checks).category))

(* sorted(grouped_checks.items()): insertion sort of the category names *)
RECURSIVE InsertCategory(_, _)
InsertCategory(sorted, x) ==
    IF sorted = <<>> THEN <<x>>
    ELSE IF StrLess(x, Head(sorted)) THEN <<x>> \o sorted
    ELSE <<Head(sorted)>> \o InsertCategory(Tail(sorted), x)

RECURSIVE SortCategories(_)
SortCategories(seq) ==
    IF seq = <<>> THEN <<>>
    ELSE InsertCategory(SortCategories(Tail(seq)), Head(seq))

(* sorted(items, key=lambda x: x['item']): stable, so an element goes after *)
(* the elements before it in the list that have the same key                *)
RECURSIVE InsertItem(_, _)
InsertItem(sorted, x) ==
    IF sorted = <<>> THEN <<x>>
    ELSE IF StrLess(x.item, Head(sorted).item) THEN <<x>> \o sorted
    ELSE <<Head(sorted)>> \o InsertItem(Tail(sorted), x)

(* the items of a category left in list order; C22 tells it from SortItems *)
SortItemsListOrder(seq) == seq

RECURSIVE SortItems(_)
SortItems(seq) ==
    IF seq = <<>> THEN <<>>
    ELSE InsertItem(SortItems(SubSeq(seq, 1, Len(seq) - 1)), seq[Len(seq)])

(* one rendered item: the priority tag is shown for a status other than NORMAL *)
html_item(check) ==
    [item |-> check.item, status |-> check.status,
     priority_tag |-> IF check.status # NORMAL THEN check.priority ELSE "",
     details |-> check.details]

html_category(checks, category) ==
    LET items == SelectSeq(checks, LAMBDA c : c.category = category)
        ordered == SortItems(items)
    IN [category |-> category,
        items |-> [j \in 1..Len(ordered) |-> html_item(ordered[j])]]

(* the document generate_html_report writes *)
html_content(checks, ts, hostname) ==
    LET cats == SortCategories(Categories(checks, <<>>))
    IN [hostname |-> hostname, timestamp |-> ts,
        body |-> [j \in 1..Len(cats) |-> html_category(checks, cats[j])]]

(* generate_test_data *)
generate_test_data ==
    << Finding("Recursos de Sistema", "Uso de CPU", NORMAL, P4, "Uso de 15.2%"),
       Finding("Recursos de Sistema", "Uso de Memória", ATENCAO, P2,
               "Uso de 88.9% excede o limite de 85.0%"),
       Finding("Recursos de Sistema", "Média de Carga (Load Average)", ATENCAO, P2,
               "Carga (1m, 5m, 15m): 35.5, 20.1, 15.0 em 16 núcleos."),
       Finding("Recursos de GPU", "GPU 0: NVIDIA A100", ATENCAO, P2, "Temp: 92.0°C"),
       Finding("Recursos de GPU", "GPU 1: NVIDIA A100", NORMAL, P4, "Temp: 65.0°C"),
       Finding("Rede de Alta Performance", "InfiniBand Health & Topology", ATENCAO, P2,
               "Port 1: Estado: Active"),
       Finding("Hardware e S.O.", "Logs do Kernel (dmesg)", ATENCAO, P2, "mce"),
       Finding("Saúde dos Discos (S.M.A.R.T.)", "Disco /dev/sda", NORMAL, P4, "aprovado"),
       Finding("Saúde dos Discos (S.M.A.R.T.)", "Disco /dev/sdb", FALHA, P1, "FALHOU"),
       Finding("Saúde dos Discos (S.M.A.R.T.)", "Disco /dev/nvme0n1", ATENCAO, P2, "Desgaste"),
       Finding("Saúde da Rede", "Interface eth0", ATENCAO, P3, "Erros: 102"),
       Finding("Saúde do S.O.", "Processos Zumbis", ATENCAO, P3, "Encontrados 10"),
       Finding("Saúde do S.O.", "Tempo de Atividade (Uptime)", ATENCAO, P3, "04:32:15"),
       Finding("Serviços Essenciais", "Serviço: beegfs-client", NORMAL, P4, "ativo"),
       Finding("Serviços Essenciais", "Serviço: mysql", FALHA, P1, "inativo"),
       Finding("Performance de Disco (I/O)", "Disco sdb1 (/mnt/BeeGFS/storage)", ATENCAO, P2,
               "Latência de escrita de 65.7ms excede o limite."),
       Finding("Uso de Disco BeeGFS", "Uso da Partição /BeeGFS/storage", ATENCAO, P2,
               "Uso: 96.3%."),
       Finding("Uso de Disco BeeGFS", "Uso Agregado das Partições", ATENCAO, P2,
               "Uso total: 92.5%.") >>

-----------------------------------------------------------------------------
(* The host states a run of main() meets in the model *)

Proc(out, raw, rc) == [out |-> out, raw |-> raw, rc |-> rc]
NotInstalled == Proc(<<>>, "sh: command not found", 127)
File(line) == [err |-> "", line |-> line]
Unreadable == [err |-> "IOError", line |-> <<>>]

StatLine(user, idle) == File(<<W("cpu"), I(user), I(0), I(0), I(idle), I(0), I(0), I(0), I(0)>>)

MemInfo(total, free) ==
    [err |-> "",
     lines |-> << <<W("MemTotal:"), I(total), W("kB")>>, <<W("MemFree:"), I(free), W("kB")>>,
                  <<W("Buffers:"), I(0), W("kB")>>, <<W("Cached:"), I(0), W("kB")>>,
                  <<W("SReclaimable:"), I(0), W("kB")>> >>]

CpuMemEnvs ==
    { [stat1 |-> StatLine(300, 700), stat2 |-> StatLine(350, 750), meminfo |-> MemInfo(100, 60)],
      [stat1 |-> StatLine(300, 700), stat2 |-> StatLine(400, 700), meminfo |-> MemInfo(100, 60)] }

LoadAvg(load_1m) ==
    [err |-> "", toks |-> <<load_1m, D(4), D(3), W("1/200"), I(4242)>>]

LoadEnvs ==
    { [loadavg |-> LoadAvg(D(5)), nproc |-> Proc(<< <<I(4)>> >>, "4", 0)],
      [loadavg |-> LoadAvg(D(5)), nproc |-> Proc(<< <<I(0)>> >>, "0", 0)] }

GpuEnvs == { [list |-> NotInstalled, query |-> NotInstalled] }

IbStat(state, phys) ==
    << KV("CA 'mlx5_0'", ""), KV("Port 1", ""), KV("State", state),
       KV("Physical state", phys), KV("Rate", "100"), KV("Port GUID", "0x1") >>

IbEnvs ==
    { [version |-> NotInstalled, ibstat |-> NotInstalled, ibnetdiscover |-> NotInstalled],
      [version |-> Proc(<<>>, "ibstat 1.0", 0),
       ibstat |-> Proc(IbStat("Active", "LinkUp"), "CA 'mlx5_0'", 0),
       ibnetdiscover |-> Proc(<< [ca |-> TRUE, sw |-> TRUE, quoted |-> TRUE, name |-> "MF0;sw1"] >>,
                              "Ca -> SW", 0)] }

NetLine(name, rx_errs) ==
    <<W(name), I(10), I(10), I(rx_errs), I(0), I(0), I(0), I(0), I(0),
      I(10), I(10), I(0), I(0), I(0), I(0), I(0), I(0)>>

NetHeader == << <<W("Inter-|"), W("Receive")>>, <<W("face"), W("|bytes")>> >>

NetEnvs == { [netdev |-> [err |-> "", lines |-> NetHeader \o <<NetLine("lo:", 3), NetLine("eth0:", 0)>>]] }

SysEnvs == { [dmesg |-> Proc(<<>>, "", 1)] }

DiskHealthEnvs == { [version |-> NotInstalled, ls |-> NotInstalled, disk |-> <<>>] }

ZombieEnvs ==
    { [ps |-> Proc(<< <<I(0)>> >>, "0", 1)],
      [ps |-> Proc(<< <<I(5)>> >>, "5", 0)] }

UptimeEnvs == { [uptime |-> Proc(<< <<I(0)>> >>, "2025-12-01 00:00:00", 0), now |-> 700000] }

ServiceAbsent == Proc(<<KV("Unit could not be found.", "")>>, "Unit could not be found.", 4)
ServiceRunning ==
    Proc(<<KV("Loaded", "loaded"), KV("Active", "active (running) since today")>>,
         "Active: active (running) since today", 0)

ServiceEnvs ==
    { [services |-> <<ServiceRunning, ServiceAbsent, ServiceAbsent, ServiceAbsent, ServiceAbsent>>] }

NoMounts == Proc(<< [on_beegfs |-> FALSE, mp |-> "/"] >>, "/dev/sda1 on / type ext4", 0)

DiskIoEnvs ==
    { [mount |-> NoMounts, iostat_version |-> NotInstalled, iostat |-> NotInstalled,
       df |-> <<>>, lsblk |-> <<>>] }

BeegfsEnvs == { [mount |-> NoMounts, dfk |-> <<>>] }

Hostname == Proc(<< <<W("node01")>> >>, "node01", 0)

-----------------------------------------------------------------------------
(* main() *)

Argvs == [force : BOOLEAN, test : BOOLEAN]

NoTraceback == [check |-> "", exc |-> ""]

Init ==
    /\ pc = "start"
    /\ argv \in Argvs
    /\ clock = 1
    /\ timestamp = ""
    /\ all_checks = <<>>
    /\ csv_exists = FALSE
    /\ csv_file = <<>>
    /\ html_exists = FALSE
    /\ html_file = html_content(<<>>, "", "")
    /\ traceback = NoTraceback
    /\ probe = [of |-> ""]
    /\ result = [of |-> "", val |-> <<>>]
    /\ first_read = NoRead

(* setup_output_files opening the CSV log with mode 'w' on every run; C4 *)
(* tells it from SetupOutputFiles                                        *)
SetupOutputFilesTruncating ==
    /\ pc = "start"
    /\ csv_exists' = TRUE /\ csv_file' = <<CSV_HEADER>>
    /\ timestamp' = strftime(clock)
    /\ pc' = IF argv.test THEN "test_html" ELSE "check_cpu_memory"
    /\ UNCHANGED <<argv, clock, all_checks, html_exists, html_file, traceback, probe, result, first_read>>

(* setup_output_files, then timestamp = now *)
SetupOutputFiles ==
    /\ pc = "start"
    /\ IF csv_exists
       THEN UNCHANGED <<csv_exists, csv_file>>
       ELSE csv_exists' = TRUE /\ csv_file' = <<CSV_HEADER>>
    /\ timestamp' = strftime(clock)
    /\ pc' = IF argv.test THEN "test_html" ELSE "check_cpu_memory"
    /\ UNCHANGED <<argv, clock, all_checks, html_exists, html_file, traceback, probe, result, first_read>>

(* --test-html: the report of the example data, then return *)
TestHtml ==
    /\ pc = "test_html"
    /\ html_exists' = TRUE
    /\ html_file' = html_content(generate_test_data, timestamp, run_command(Hostname).raw)
    /\ pc' = "done"
    /\ UNCHANGED <<argv, clock, timestamp, all_checks, csv_exists, csv_file, traceback, probe, result, first_read>>

(* one collection statement of main: r is what the check returned or raised. *)
(* main catches nothing: an exception leaves it and the interpreter ends the *)
(* process there with a traceback, pc staying at the statement that raised   *)
Collected(next, r) ==
    /\ traceback = NoTraceback
    /\ IF r.exc # ""
       THEN traceback' = [check |-> pc, exc |-> r.exc] /\ UNCHANGED <<pc, all_checks>>
       ELSE pc' = next /\ all_checks' = all_checks \o r.val /\ UNCHANGED traceback
    /\ UNCHANGED <<argv, clock, timestamp, csv_exists, csv_file, html_exists, html_file,
                   probe, result>>

Collect(next, r) == Collected(next, r) /\ UNCHANGED first_read

(* a check that returns one Finding, as main appends it *)
AsList(r) == IF r.exc # "" THEN r ELSE Return(<<r.val>>)

(* check_cpu_memory up to time.sleep(1): the first read of /proc/stat.  A  *)
(* read that raises leaves the try block at once, and the routine goes on *)
(* to its end without waiting.                                            *)
RunCpuMemory ==
    /\ pc = "check_cpu_memory" /\ first_read = NoRead
    /\ traceback = NoTraceback
    /\ \E env \in CpuMemEnvs :
           IF get_cpu_times(env.stat1).exc # ""
           THEN Collect("check_load_average", check_cpu_memory(env))
           ELSE /\ first_read' = [of |-> "check_cpu_memory",
                                  val |-> get_cpu_times(env.stat1).val]
                /\ UNCHANGED <<pc, argv, clock, timestamp, all_checks, csv_exists, csv_file,
                               html_exists, html_file, traceback, probe, result>>

(* check_cpu_memory from the end of time.sleep(1): the second read of        *)
(* /proc/stat, the read of /proc/meminfo and the return to main, on a host   *)
(* whose first read gave the sample the routine holds                        *)
RunCpuMemoryAfterSleep ==
    /\ pc = "check_cpu_memory" /\ first_read.of = "check_cpu_memory"
    /\ \E env \in CpuMemEnvs :
           /\ get_cpu_times(env.stat1) = Return(first_read.val)
           /\ Collected("check_load_average", check_cpu_memory(env))
    /\ first_read' = NoRead

RunLoadAverage ==
    /\ pc = "check_load_average"
    /\ \E env \in LoadEnvs :
           Collect("check_gpus", AsList(check_load_average(env)))

RunGpus ==
    /\ pc = "check_gpus"
    /\ \E env \in GpuEnvs :
           Collect("check_infiniband", check_gpus(env))

RunInfiniband ==
    /\ pc = "check_infiniband"
    /\ \E env \in IbEnvs :
           Collect("check_network_errors", check_infiniband(env))

RunNetworkErrors ==
    /\ pc = "check_network_errors"
    /\ \E env \in NetEnvs :
           Collect("check_system_errors", check_network_errors(env))

RunSystemErrors ==
    /\ pc = "check_system_errors"
    /\ \E env \in SysEnvs :
           Collect("check_disk_health", AsList(check_system_errors(env)))

RunDiskHealth ==
    /\ pc = "check_disk_health"
    /\ \E env \in DiskHealthEnvs :
           Collect("check_zombie_processes", check_disk_health(env))

RunZombieProcesses ==
    /\ pc = "check_zombie_processes"
    /\ \E env \in ZombieEnvs :
           Collect("check_uptime", AsList(check_zombie_processes(env)))

RunUptime ==
    /\ pc = "check_uptime"
    /\ \E env \in UptimeEnvs :
           Collect("check_services", AsList(check_uptime(env)))

RunServices ==
    /\ pc = "check_services"
    /\ \E env \in ServiceEnvs :
           Collect("check_disk_io", check_services(env))

RunDiskIo ==
    /\ pc = "check_disk_io"
    /\ \E env \in DiskIoEnvs :
           Collect("check_beegfs_disk_usage", check_disk_io(env))

RunBeegfsDiskUsage ==
    /\ pc = "check_beegfs_disk_usage"
    /\ \E env \in BeegfsEnvs :
           Collect("log_to_csv", check_beegfs_disk_usage(env))

(* log_to_csv(all_checks, timestamp): mode 'a' creates a missing file *)
LogToCsv ==
    /\ pc = "log_to_csv"
    /\ csv_exists' = TRUE
    /\ csv_file' = csv_file \o csv_rows(all_checks, timestamp)
    /\ pc' = "report"
    /\ UNCHANGED <<argv, clock, timestamp, all_checks, html_exists, html_file, traceback, probe, result, first_read>>

has_issues(checks) == \E j \in 1..Len(checks) : checks[j].status \in {ATENCAO, FALHA}

(* the report written on every run; C20 tells it from should_render *)
should_render_always(checks, force) == TRUE

(* the report decision without the force flag; C1 tells it from should_render *)
should_render_issues_only(checks, force) == has_issues(checks)

(* if has_issues or force_html_generation: generate_html_report(...) *)
should_render(checks, force) == has_issues(checks) \/ force

Report ==
    /\ pc = "report"
    /\ IF should_render(all_checks, argv.force)
       THEN /\ html_exists' = TRUE
            /\ html_file' = html_content(all_checks, timestamp, run_command(Hostname).raw)
            /\ pc' = "report_rendered"
       ELSE /\ UNCHANGED <<html_exists, html_file>>
            /\ pc' = "report_skipped"
    /\ UNCHANGED <<argv, clock, timestamp, all_checks, csv_exists, csv_file, traceback, probe, result, first_read>>

(* print("Verificação concluída.") and return *)
Finish ==
    /\ pc \in {"report_rendered", "report_skipped"}
    /\ pc' = "done"
    /\ UNCHANGED <<argv, clock, timestamp, all_checks, csv_exists, csv_file,
                   html_exists, html_file, traceback, probe, result, first_read>>

(* the next invocation of the script, after the previous process ended *)
NewRun ==
    /\ pc = "done" \/ traceback # NoTraceback
    /\ clock < MaxRuns
    /\ clock' = clock + 1
    /\ argv' \in Argvs
    /\ pc' = "start"
    /\ all_checks' = <<>>
    /\ timestamp' = ""
    /\ traceback' = NoTraceback
    /\ UNCHANGED <<csv_exists, csv_file, html_exists, html_file, probe, result, first_read>>

Next ==
    \/ SetupOutputFiles \/ TestHtml
    \/ RunCpuMemory \/ RunCpuMemoryAfterSleep \/ RunLoadAverage \/ RunGpus \/ RunInfiniband \/ RunNetworkErrors
    \/ RunSystemErrors \/ RunDiskHealth \/ RunZombieProcesses \/ RunUptime \/ RunServices
    \/ RunDiskIo \/ RunBeegfsDiskUsage
    \/ LogToCsv \/ Report \/ Finish \/ NewRun

Spec == Init /\ [][Next]_vars

-----------------------------------------------------------------------------
(* Properties of main(), checked under Spec *)

(* the report file holds the document written by the current run *)
RenderedThisRun == html_exists /\ timestamp # "" /\ html_file.timestamp = timestamp

AnyWarnOrFail == \E j \in 1..Len(all_checks) : all_checks[j].status \in {ATENCAO, FALHA}

PastReport == pc \in {"report_rendered", "report_skipped", "done"}

(* C1: in a run without --test-html, once the report decision is taken the   *)
(* HTML report has been written by this run if and only if some Finding of   *)
(* all_checks is ATENÇÃO or FALHA or --force-html was given; before the      *)
(* decision the run has written no report.                                   *)
C1_ReportGating ==
    ~argv.test =>
        /\ PastReport => (RenderedThisRun <=> (AnyWarnOrFail \/ argv.force))
        /\ ~PastReport => ~RenderedThisRun

(* C1 witness: a finished run without the force flag that rendered the report *)
(* because of a Finding that is not NORMAL                                     *)
C1_Witness ==
    /\ pc = "done" /\ ~argv.test /\ ~argv.force
    /\ AnyWarnOrFail /\ RenderedThisRun

(* C2: a step in which a check raises an exception that the check does not  *)
(* catch appends exactly one FALHA/P1 Finding to all_checks and moves main    *)
(* on to the statement that runs the next check.                              *)
C2_CheckIsolation ==
    [][(traceback = NoTraceback /\ traceback' # NoTraceback) =>
          /\ pc' # pc
          /\ Len(all_checks') = Len(all_checks) + 1
          /\ all_checks'[Len(all_checks')].status = FALHA
          /\ all_checks'[Len(all_checks')].priority = P1]_vars

IsPrefix(s, t) == Len(s) <= Len(t) /\ SubSeq(t, 1, Len(s)) = s

(* C3: log_to_csv appends exactly one row per Finding of all_checks, in list  *)
(* order, each row being timestamp, category, item, status, priority and      *)
(* details of its Finding; main reaches the report decision only through      *)
(* that append, and neither the decision nor the rendering changes the file.  *)
C3_CsvRowPerFinding ==
    [][/\ (pc' = "report" /\ pc # "report") =>
              /\ Len(csv_file') = Len(csv_file) + Len(all_checks)
              /\ IsPrefix(csv_file, csv_file')
              /\ \A j \in 1..Len(all_checks) :
                     csv_file'[Len(csv_file) + j] =
                         <<timestamp, all_checks[j].category, all_checks[j].item,
                           all_checks[j].status, all_checks[j].priority,
                           all_checks[j].details>>
       /\ pc \in {"report", "report_rendered", "report_skipped"} =>
              csv_file' = csv_file]_vars

(* C3 witness: a finished run that rendered no report and whose Findings are  *)
(* the last rows of the CSV log                                               *)
C3_Witness ==
    /\ pc = "done" /\ ~argv.test /\ ~RenderedThisRun
    /\ Len(all_checks) >= 4
    /\ Len(csv_file) >= 1 + Len(all_checks)
    /\ csv_file[Len(csv_file)][1] = timestamp
    /\ csv_file[Len(csv_file)][3] = all_checks[Len(all_checks)].item

HeaderRows == {j \in 1..Len(csv_file) : csv_file[j] = CSV_HEADER}

(* C4: the CSV log only grows: every step keeps the rows already in the file  *)
(* as a prefix and never removes the file; the header row is the first row    *)
(* and occurs once, and a step writes it only when the file was absent.       *)
C4_CsvAppendOnly ==
    /\ [](csv_exists => (Len(csv_file) >= 1 /\ HeaderRows = {1}))
    /\ [](~csv_exists => csv_file = <<>>)
    /\ [][/\ IsPrefix(csv_file, csv_file')
          /\ csv_exists => csv_exists'
          /\ (csv_file' # csv_file /\ csv_file'[Len(csv_file) + 1] = CSV_HEADER)
                 => ~csv_exists]_vars

(* C4 witness: the second run has appended its rows after those of the first  *)
C4_Witness ==
    /\ clock = 2 /\ pc = "done" /\ ~argv.test
    /\ \E j \in 2..Len(csv_file) : csv_file[j][1] = strftime(1)
    /\ csv_file[Len(csv_file)][1] = strftime(2)

(* C5: no outcome of a command or of a /proc read ends the process with an    *)
(* uncaught exception, and a finished run without --test-html has appended    *)
(* its rows to the CSV log.                                                   *)
C5_RunCompletes ==
    /\ traceback = NoTraceback
    /\ (pc = "done" /\ ~argv.test) =>
           \E j \in 1..Len(csv_file) : csv_file[j][1] = timestamp

CheckOrder ==
    <<"check_cpu_memory", "check_load_average", "check_gpus", "check_infiniband",
      "check_network_errors", "check_system_errors", "check_disk_health",
      "check_zombie_processes", "check_uptime", "check_services", "check_disk_io",
      "check_beegfs_disk_usage">>

Phase(p) ==
    CASE p = "start" -> "Idle"
      [] p = "check_cpu_memory" -> "Initialized"
      [] p \in {"log_to_csv", "report"} -> "Aggregated"
      [] p = "report_rendered" -> "ReportRendered"
      [] p = "report_skipped" -> "ReportSkipped"
      [] p = "done" -> "Done"
      [] OTHER -> "Running"

PhaseEdges ==
    { <<"Idle", "Initialized">>, <<"Initialized", "Running">>, <<"Running", "Running">>,
      <<"Running", "Aggregated">>, <<"Aggregated", "Aggregated">>,
      <<"Aggregated", "ReportRendered">>, <<"Aggregated", "ReportSkipped">>,
      <<"ReportRendered", "Done">>, <<"ReportSkipped", "Done">> }

(* C6: within every run, --test-html included, the phases follow Idle,        *)
(* Initialized, Running, Aggregated, ReportSkipped or ReportRendered, Done:   *)
(* the output files are set up before the first check, the checks run in the  *)
(* order of CheckOrder, only a check changes all_checks, the CSV log is       *)
(* appended only after the last check, and the report is written only after   *)
(* the CSV append.                                                            *)
C6_PhaseOrder ==
    [][(clock' = clock) =>
          /\ pc' # pc => <<Phase(pc), Phase(pc')>> \in PhaseEdges
          /\ pc' = "check_cpu_memory" =>
                 (pc \in {"start", "check_cpu_memory"} /\ csv_exists' /\ all_checks' = <<>>)
          /\ \A j \in 1..Len(CheckOrder) :
                 (pc = CheckOrder[j] /\ pc' # pc) =>
                     pc' = (IF j < Len(CheckOrder) THEN CheckOrder[j + 1] ELSE "log_to_csv")
          /\ all_checks' # all_checks => (Phase(pc) \in {"Initialized", "Running"})
          /\ (pc # "start" /\ csv_file' # csv_file) => (pc = "log_to_csv" /\ pc' = "report")
          /\ html_file' # html_file => (pc = "report" /\ pc' = "report_rendered")]_vars

-----------------------------------------------------------------------------
(* src/Linux/Cpu/cpu_monitor.py.  A stats dictionary is the sequence of its *)
(* entries [name, values] in insertion order; values are the ten counters   *)
(* user, nice, system, idle, iowait, irq, softirq, steal, guest, guest_nice *)

StatsEntry(name, user, idle) ==
    [name |-> name, values |-> <<user, 0, 0, idle, 0, 0, 0, 0, 0, 0>>]

(* the usage calculate_cpu_usage stores for one CPU *)
cpu_name_usage(old_stats, new_stats) ==
    LET delta_total == SumSeq(new_stats) - SumSeq(old_stats)
        delta_idle == new_stats[4] - old_stats[4]
    IN IF delta_total = 0 THEN Return(<<0, 1>>)
       ELSE py_div(100 * (delta_total - delta_idle), delta_total)

RECURSIVE calculate_cpu_usage_from(_, _, _)
calculate_cpu_usage_from(previous_cpu_stats, current_cpu_stats, j) ==
    IF j > Len(previous_cpu_stats) THEN Return(<<>>)
    ELSE LET cpu_name == previous_cpu_stats[j].name
             at == {i \in 1..Len(current_cpu_stats) : current_cpu_stats[i].name = cpu_name}
         IN IF at = {} THEN Raise("KeyError")
            ELSE LET u == cpu_name_usage(previous_cpu_stats[j].values,
                                         current_cpu_stats[CHOOSE i \in at : TRUE].values)
                     rest == calculate_cpu_usage_from(previous_cpu_stats, current_cpu_stats, j + 1)
                 IN IF u.exc # "" THEN Raise(u.exc)
                    ELSE IF rest.exc # "" THEN Raise(rest.exc)
                    ELSE Return(<<[name |-> cpu_name, usage |-> u.val]>> \o rest.val)

calculate_cpu_usage(previous_cpu_stats, current_cpu_stats) ==
    calculate_cpu_usage_from(previous_cpu_stats, current_cpu_stats, 1)

-----------------------------------------------------------------------------
(* src/Linux/Cpu/cpu_monitor_check.py: get_cpu_usage_percent.  A file is    *)
(* [err, lines], the lines of /proc/stat, each the sequence of its tokens.  *)

StartsWithCpu(line) ==
    Len(line) > 0 /\ TokText(line[1]) \in {"cpu", "cpu0", "cpu1", "cpu2"}

(* the tuples one read of /proc/stat appends, or the ValueError of int() *)
RECURSIVE read_cpu_usages(_)
read_cpu_usages(lines) ==
    IF lines = <<>> THEN Return(<<>>)
    ELSE LET parts == Head(lines)
             rest == read_cpu_usages(Tail(lines))
         IN IF ~StartsWithCpu(parts) \/ Len(parts) < 8 THEN rest
            ELSE IF \E j \in 2..8 : parts[j].k # "int" THEN Raise("ValueError")
            ELSE IF rest.exc # "" THEN rest
            ELSE Return(<<[idle |-> parts[5].n,
                           total |-> SumSeq([j \in 1..7 |-> parts[j + 1].n])]>> \o rest.val)

(* cpu_percentage without the test of delta_total; C9 tells the two apart *)
cpu_percentage_unguarded(prev, curr) ==
    LET delta_idle == curr.idle - prev.idle
        delta_total == curr.total - prev.total
    IN py_div((delta_total - delta_idle) * 100, delta_total)

(* cpu_percentage of one pair of tuples *)
cpu_percentage(prev, curr) ==
    LET delta_idle == curr.idle - prev.idle
        delta_total == curr.total - prev.total
    IN IF delta_total # 0 THEN py_div((delta_total - delta_idle) * 100, delta_total)
       ELSE Return(<<0, 1>>)

RECURSIVE cpu_percentages(_, _, _)
cpu_percentages(before, after, i) ==
    IF i > Len(before) THEN Return(<<>>)
    ELSE IF i > Len(after) THEN Raise("IndexError")
    ELSE LET u == cpu_percentage(before[i], after[i])
             rest == cpu_percentages(before, after, i + 1)
         IN IF u.exc # "" THEN Raise(u.exc)
            ELSE IF rest.exc # "" THEN rest
            ELSE Return(<<u.val>> \o rest.val)

(* get_cpu_usage_percent: cpu_count is what get_cpu_count() returns *)
get_cpu_usage_percent(file1, file2, cpu_count) ==
    LET before == read_cpu_usages(file1.lines)
        after == read_cpu_usages(file2.lines)
        percentages == cpu_percentages(before.val, after.val, 1)
    IN IF file1.err = "FileNotFoundError" THEN Return([j \in 1..cpu_count |-> <<0, 1>>])
       ELSE IF file1.err # "" THEN Raise(file1.err)
       ELSE IF before.exc # "" THEN Raise(before.exc)
       ELSE IF file2.err = "FileNotFoundError" THEN Return([j \in 1..cpu_count |-> <<0, 1>>])
       ELSE IF file2.err # "" THEN Raise(file2.err)
       ELSE IF after.exc # "" THEN Raise(after.exc)
       ELSE IF percentages.exc # "" THEN Raise(percentages.exc)
       ELSE Return(Slice(percentages.val, 1, Len(percentages.val)))

-----------------------------------------------------------------------------
(* The CPU usage routines on their own: the inputs are the reads of          *)
(* /proc/stat, the action applies the routine                                *)

MaxTicks == 3

Ticks == 0..MaxTicks

StatFiles ==
    {Unreadable, File(<<>>), File(<<W("cpu"), I(1), I(2), I(3)>>),
     File(<<W("cpu"), I(1), W("x"), I(3), I(4)>>)}
    \cup {StatLine(u, i) : u \in Ticks, i \in Ticks}
    \cup {StatLine(300, 700), StatLine(350, 750)}

StatsDicts ==
    {<<StatsEntry("cpu0", u, i)>> : u \in Ticks, i \in {0, MaxTicks}}
    \cup {<<StatsEntry("cpu0", 300, 700), StatsEntry("cpu1", 1, 1)>>,
          <<StatsEntry("cpu0", 350, 750), StatsEntry("cpu1", 1, 1)>>}

CpuLine(name, user, idle) == <<W(name), I(user), I(0), I(0), I(idle), I(0), I(0), I(0)>>

ProcStats ==
    {[err |-> "", lines |-> <<CpuLine("cpu", u + 1, 1), CpuLine("cpu0", u, i), <<W("intr"), I(7)>> >>]
        : u \in Ticks, i \in {0, MaxTicks}}
    \cup {[err |-> "FileNotFoundError", lines |-> <<>>],
          [err |-> "", lines |-> <<CpuLine("cpu", 1300, 1700), CpuLine("cpu0", 300, 700),
                                   CpuLine("cpu1", 1, 1)>>],
          [err |-> "", lines |-> <<CpuLine("cpu", 1450, 1750), CpuLine("cpu0", 350, 750),
                                   CpuLine("cpu1", 1, 1)>>]}

NoResult == [of |-> "", val |-> <<>>]

InitIdle ==
    /\ pc = "start"
    /\ argv = [force |-> FALSE, test |-> FALSE]
    /\ clock = 1
    /\ timestamp = ""
    /\ all_checks = <<>>
    /\ csv_exists = FALSE
    /\ csv_file = <<>>
    /\ html_exists = FALSE
    /\ html_file = html_content(<<>>, "", "")
    /\ traceback = NoTraceback
    /\ result = NoResult
    /\ first_read = NoRead

(* /proc/meminfo: 40 and 90 percent used, no MemTotal, a value that is not *)
(* a number, and a file that cannot be opened                              *)
MemInfoFiles ==
    {MemInfo(100, 60), MemInfo(100, 10), MemInfo(0, 0),
     [err |-> "", lines |-> << <<W("MemTotal:"), W("x"), W("kB")>> >>],
     [err |-> "IOError", lines |-> <<>>]}

InitCpu ==
    /\ InitIdle
    /\ \/ probe \in [of : {"check_cpu_memory"}, stat1 : StatFiles, stat2 : StatFiles,
                     meminfo : MemInfoFiles]
       \/ probe \in [of : {"calculate_cpu_usage"}, previous : StatsDicts, current : StatsDicts]
       \/ probe \in [of : {"get_cpu_usage_percent"}, file1 : ProcStats, file2 : ProcStats]

(* what check_cpu_memory leaves when it returns on the probed host *)
CheckCpuMemoryResult ==
    [of |-> "check_cpu_memory",
     usage |-> cpu_sample_usage(probe.stat1, probe.stat2),
     val |-> check_cpu_memory([stat1 |-> probe.stat1, stat2 |-> probe.stat2,
                               meminfo |-> probe.meminfo])]

(* check_cpu_memory up to time.sleep(1): the first read; a read that raises *)
(* ends the try block, and the routine returns without waiting              *)
ApplyCheckCpuMemory ==
    /\ probe.of = "check_cpu_memory" /\ result = NoResult /\ first_read = NoRead
    /\ IF get_cpu_times(probe.stat1).exc # ""
       THEN result' = CheckCpuMemoryResult /\ UNCHANGED first_read
       ELSE /\ first_read' = [of |-> "check_cpu_memory",
                              val |-> get_cpu_times(probe.stat1).val]
            /\ UNCHANGED result
    /\ UNCHANGED <<pc, argv, clock, timestamp, all_checks, csv_exists, csv_file,
                   html_exists, html_file, traceback, probe>>

(* check_cpu_memory from the end of time.sleep(1) to its return *)
ApplyCheckCpuMemoryAfterSleep ==
    /\ probe.of = "check_cpu_memory" /\ result = NoResult
    /\ first_read = [of |-> "check_cpu_memory", val |-> get_cpu_times(probe.stat1).val]
    /\ result' = CheckCpuMemoryResult
    /\ first_read' = NoRead
    /\ UNCHANGED <<pc, argv, clock, timestamp, all_checks, csv_exists, csv_file,
                   html_exists, html_file, traceback, probe>>

ApplyCalculateCpuUsage ==
    /\ probe.of = "calculate_cpu_usage" /\ result = NoResult
    /\ result' = [of |-> "calculate_cpu_usage",
                  val |-> calculate_cpu_usage(probe.previous, probe.current)]
    /\ UNCHANGED <<mainVars, probe>>

(* get_cpu_usage_percent up to time.sleep(0.1): the first read of /proc/stat *)
(* into cpu_usages_before; a read that raises ends the routine at once       *)
ApplyGetCpuUsagePercent ==
    /\ probe.of = "get_cpu_usage_percent" /\ result = NoResult /\ first_read = NoRead
    /\ IF probe.file1.err # "" \/ read_cpu_usages(probe.file1.lines).exc # ""
       THEN /\ result' = [of |-> "get_cpu_usage_percent",
                          val |-> get_cpu_usage_percent(probe.file1, probe.file2, 1)]
            /\ UNCHANGED first_read
       ELSE /\ first_read' = [of |-> "get_cpu_usage_percent",
                              val |-> read_cpu_usages(probe.file1.lines).val]
            /\ UNCHANGED result
    /\ UNCHANGED <<pc, argv, clock, timestamp, all_checks, csv_exists, csv_file,
                   html_exists, html_file, traceback, probe>>

(* get_cpu_usage_percent from the end of time.sleep(0.1) to its return *)
ApplyGetCpuUsagePercentAfterSleep ==
    /\ probe.of = "get_cpu_usage_percent" /\ result = NoResult
    /\ first_read = [of |-> "get_cpu_usage_percent",
                     val |-> read_cpu_usages(probe.file1.lines).val]
    /\ result' = [of |-> "get_cpu_usage_percent",
                  val |-> get_cpu_usage_percent(probe.file1, probe.file2, 1)]
    /\ first_read' = NoRead
    /\ UNCHANGED <<pc, argv, clock, timestamp, all_checks, csv_exists, csv_file,
                   html_exists, html_file, traceback, probe>>

NextCpu ==
    \/ ApplyCheckCpuMemory \/ ApplyCheckCpuMemoryAfterSleep
    \/ ApplyCalculateCpuUsage
    \/ ApplyGetCpuUsagePercent \/ ApplyGetCpuUsagePercentAfterSleep

SpecCpu == InitCpu /\ [][NextCpu]_vars

-----------------------------------------------------------------------------
(* Properties of the CPU usage routines, checked under SpecCpu *)

(* a read of /proc/stat that gives the counters: the file opens and its first *)
(* line has, after the label, at least four fields, the first eight of them   *)
(* (or all, when fewer) integers                                              *)
GoodSample(file) ==
    /\ file.err = ""
    /\ Len(file.line) >= 5
    /\ \A j \in 2..Len(file.line) : j <= 9 => file.line[j].k = "int"

SampleTotal(file) ==
    SumSeq([j \in 1..(Min(9, Len(file.line)) - 1) |-> file.line[j + 1].n])

SampleIdle(file) == file.line[5].n

(* usage u is the quotient num / den *)
IsQuotient(u, num, den) == u[2] # 0 /\ u[1] * den = num * u[2]

EntryTotal(entry) == SumSeq(entry.values)

(* C8: with total2 # total1 the CPU usage is                                  *)
(* 100 * ((total2 - total1) - (idle2 - idle1)) / (total2 - total1), in        *)
(* check_cpu_memory and in calculate_cpu_usage; the samples (1000, 700) and   *)
(* (1100, 750) give 50.                                                       *)
C8_CpuUsageFormula ==
    /\ (result.of = "check_cpu_memory" /\ GoodSample(probe.stat1) /\ GoodSample(probe.stat2)
            /\ SampleTotal(probe.stat2) # SampleTotal(probe.stat1)) =>
           /\ result.usage.exc = ""
           /\ IsQuotient(result.usage.val,
                         100 * ((SampleTotal(probe.stat2) - SampleTotal(probe.stat1))
                                - (SampleIdle(probe.stat2) - SampleIdle(probe.stat1))),
                         SampleTotal(probe.stat2) - SampleTotal(probe.stat1))
    /\ (result.of = "check_cpu_memory" /\ probe.stat1 = StatLine(300, 700)
            /\ probe.stat2 = StatLine(350, 750)) =>
           (SampleTotal(probe.stat1) = 1000 /\ SampleTotal(probe.stat2) = 1100
            /\ result.usage.exc = "" /\ RatEQ(result.usage.val, <<50, 1>>))
    /\ (result.of = "calculate_cpu_usage" /\ result.val.exc = "") =>
           \A j \in 1..Len(result.val.val) :
               LET old == probe.previous[j]
                   new == CHOOSE e \in {probe.current[i] : i \in 1..Len(probe.current)} :
                              e.name = old.name
               IN  EntryTotal(new) # EntryTotal(old) =>
                       IsQuotient(result.val.val[j].usage,
                                  100 * ((EntryTotal(new) - EntryTotal(old))
                                         - (new.values[4] - old.values[4])),
                                  EntryTotal(new) - EntryTotal(old))

(* C8 witness: the samples (1000, 700) and (1100, 750) went through the CPU check *)
C8_Witness ==
    /\ result.of = "check_cpu_memory"
    /\ probe.stat1 = StatLine(300, 700) /\ probe.stat2 = StatLine(350, 750)
    /\ result.usage.exc = "" /\ result.val.exc = ""

(* C9: with equal totals the usage is 0 and nothing is raised, in            *)
(* check_cpu_memory, calculate_cpu_usage and get_cpu_usage_percent; none of  *)
(* the three raises a division fault on any input.                           *)
C9_ZeroDeltaTotal ==
    /\ result.of = "check_cpu_memory" =>
           /\ result.usage.exc # "ZeroDivisionError" /\ result.val.exc # "ZeroDivisionError"
           /\ (GoodSample(probe.stat1) /\ GoodSample(probe.stat2)
                   /\ SampleTotal(probe.stat2) = SampleTotal(probe.stat1)) =>
                  (result.usage = Return(<<0, 1>>) /\ result.val.exc = "")
    /\ result.of = "calculate_cpu_usage" =>
           /\ result.val.exc # "ZeroDivisionError"
           /\ (Len(probe.previous) = 1 /\ Len(probe.current) = 1
                   /\ EntryTotal(probe.previous[1]) = EntryTotal(probe.current[1])) =>
                  result.val = Return(<<[name |-> "cpu0", usage |-> <<0, 1>>]>>)
    /\ result.of = "get_cpu_usage_percent" =>
           /\ result.val.exc # "ZeroDivisionError"
           /\ result.val.exc = "" =>
                  \A j \in 1..Len(result.val.val) :
                      (probe.file1.err = "" /\ probe.file2.err = ""
                           /\ SumSeq([f \in 1..7 |-> probe.file1.lines[j + 1][f + 1].n])
                                = SumSeq([f \in 1..7 |-> probe.file2.lines[j + 1][f + 1].n])) =>
                          result.val.val[j] = <<0, 1>>

(* C9 witness: two different samples with the same total went through the   *)
(* CPU check                                                                *)
C9_Witness ==
    /\ result.of = "check_cpu_memory"
    /\ GoodSample(probe.stat1) /\ GoodSample(probe.stat2)
    /\ probe.stat1 # probe.stat2
    /\ SampleTotal(probe.stat2) = SampleTotal(probe.stat1)
    /\ result.usage = Return(<<0, 1>>)

CpuFindings(fs) == {j \in 1..Len(fs) : fs[j].item = "Uso de CPU"}

(* C10: when the first or the second read of /proc/stat fails (the file     *)
(* does not open, or its first line does not give the counters),            *)
(* check_cpu_memory raises nothing and returns one CPU Finding, which is    *)
(* FALHA with priority P1.                                                  *)
C10_CpuReadFailure ==
    (result.of = "check_cpu_memory"
         /\ (~GoodSample(probe.stat1) \/ ~GoodSample(probe.stat2))) =>
        /\ result.val.exc = ""
        /\ Cardinality(CpuFindings(result.val.val)) = 1
        /\ \A j \in CpuFindings(result.val.val) :
               result.val.val[j].status = FALHA /\ result.val.val[j].priority = P1

(* C10 witness: the first read gave the counters, the second did not open *)
C10_Witness ==
    /\ result.of = "check_cpu_memory"
    /\ GoodSample(probe.stat1) /\ probe.stat2 = Unreadable
    /\ result.val.exc = ""
    /\ result.val.val[1].status = FALHA

-----------------------------------------------------------------------------
(* The threshold checks on their own: the inputs are measurements just     *)
(* below, at and just above each configured threshold, the action runs the *)
(* check on a host that shows the measurement                              *)

MaxOffset == 1
MaxCores == 2

Offsets == (0 - MaxOffset)..MaxOffset

(* measurements around a threshold, in tenths, and in whole units *)
Near(threshold) == {10 * threshold + o : o \in Offsets}
NearInt(threshold) == {threshold + o : o \in Offsets}

(* /proc/stat and /proc/meminfo of a host whose CPU usage is cpu / 10 percent *)
(* and whose memory usage is mem / 10 percent                                 *)
CpuMemAt(cpu, mem) ==
    [stat1 |-> StatLine(0, 0), stat2 |-> StatLine(cpu, 1000 - cpu),
     meminfo |-> MemInfo(1000, 1000 - mem)]

(* /proc/loadavg with a 1 minute load of load / 10 on a host of 'cores' cores *)
LoadAt(load, cores) ==
    [loadavg |-> LoadAvg(D(load)), nproc |-> Proc(<< <<I(cores)>> >>, ToString(cores), 0)]

(* ps | grep -c counting n zombies *)
ZombiesAt(n) == [ps |-> Proc(<< <<I(n)>> >>, ToString(n), 0)]

(* nvidia-smi reporting one GPU at temp / 10 degrees and util / 10 percent *)
GpuAt(temp, util) ==
    [list |-> Proc(<<>>, "GPU 0: A100", 0),
     query |-> Proc(<< <<I(0), W("A100"), D(temp), D(util), I(10), I(100)>> >>,
                    "0, A100", 0)]

(* smartctl reporting one healthy SSD with wear / 10 percent used at temp degrees *)
SsdAt(wear, temp) ==
    [version |-> Proc(<<>>, "smartctl 7.2", 0),
     ls |-> Proc(<< <<W("sda")>> >>, "sda", 0),
     disk |-> << [health |-> Proc({"PASSED"}, "PASSED", 0),
                  rotational |-> Proc(<<>>, "0", 0),
                  attrs |-> Proc(<< [name |-> "Percentage Used", last |-> D(wear)],
                                    [name |-> "Temperature_Celsius", last |-> I(temp)] >>,
                                 "Percentage Used", 0)] >>]

StorageMount ==
    Proc(<< [on_beegfs |-> TRUE, mp |-> "/BeeGFS/storage"] >>,
         "/dev/sdb1 on /BeeGFS/storage type xfs", 0)

(* iostat -x reporting the device of the one BeeGFS mount: extended = the   *)
(* header has r_await and w_await, else it has await (read from r_await)    *)
IoAt(extended, r_await, w_await, util) ==
    [mount |-> StorageMount,
     iostat_version |-> Proc(<<>>, "sysstat", 0),
     iostat |-> Proc(IF extended
                     THEN << <<W("Device"), W("r_await"), W("w_await"), W("%util")>>,
                             <<W("sdb1"), D(r_await), D(w_await), D(util)>> >>
                     ELSE << <<W("Device:"), W("await"), W("%util")>>,
                             <<W("sdb1"), D(r_await), D(util)>> >>,
                     "Device", 0),
     df |-> << Proc(<< <<W("Filesystem")>>, <<W("/dev/sdb1")>> >>, "/dev/sdb1", 0) >>,
     lsblk |-> << Proc(<<>>, "", 1) >>]

(* df -k reporting pct percent for the one BeeGFS partition, of 1000 blocks *)
(* with 'used' of them used                                                 *)
BeegfsAt(pct, used) ==
    [mount |-> StorageMount,
     dfk |-> << Proc(<< <<W("Filesystem")>>,
                        <<W("/dev/sdb1"), I(1000), I(used), I(1000 - used), P(pct)>> >>,
                     "/dev/sdb1", 0) >>]

InitThreshold ==
    /\ InitIdle
    /\ \/ probe \in [of : {"check_cpu_memory"}, cpu : Near(CPU_THRESHOLD_WARN),
                     mem : Near(MEM_THRESHOLD_WARN)]
       \/ \E cores \in 1..MaxCores :
              probe \in [of : {"check_load_average"}, cores : {cores},
                         load : {LOAD_AVERAGE_RATIO_WARN[1] * cores + o : o \in Offsets}]
       \/ probe \in [of : {"check_zombie_processes"},
                     zombies : NearInt(ZOMBIE_PROCESS_THRESHOLD_WARN)]
       \/ probe \in [of : {"check_gpus"}, temp : Near(GPU_TEMP_THRESHOLD_WARN),
                     util : Near(GPU_UTIL_THRESHOLD_WARN)]
       \/ probe \in [of : {"check_disk_health"},
                     wear : Near(SSD_PERCENTAGE_USED_THRESHOLD_WARN),
                     temp : NearInt(SSD_TEMPERATURE_THRESHOLD_WARN)]
       \/ probe \in [of : {"check_disk_io"}, extended : BOOLEAN,
                     r_await : Near(IO_AWAIT_THRESHOLD_WARN),
                     w_await : Near(IO_AWAIT_THRESHOLD_WARN),
                     util : Near(IO_UTIL_THRESHOLD_WARN)]
       \/ probe \in [of : {"check_beegfs_disk_usage"},
                     pct : NearInt(BEEGFS_USAGE_THRESHOLD_WARN),
                     used : Near(BEEGFS_USAGE_THRESHOLD_WARN)]

Measured(check, r) ==
    /\ probe.of = check /\ result = NoResult
    /\ result' = [of |-> check, val |-> r]
    /\ UNCHANGED <<mainVars, probe>>

(* check_cpu_memory up to time.sleep(1): the first read of /proc/stat, *)
(* which gives the counters on every host of CpuMemAt                 *)
MeasureCpuMemory ==
    /\ probe.of = "check_cpu_memory" /\ result = NoResult /\ first_read = NoRead
    /\ IF get_cpu_times(CpuMemAt(probe.cpu, probe.mem).stat1).exc # ""
       THEN /\ result' = [of |-> "check_cpu_memory",
                          val |-> check_cpu_memory(CpuMemAt(probe.cpu, probe.mem))]
            /\ UNCHANGED first_read
       ELSE /\ first_read' = [of |-> "check_cpu_memory",
                              val |-> get_cpu_times(CpuMemAt(probe.cpu, probe.mem).stat1).val]
            /\ UNCHANGED result
    /\ UNCHANGED <<pc, argv, clock, timestamp, all_checks, csv_exists, csv_file,
                   html_exists, html_file, traceback, probe>>

(* check_cpu_memory from the end of time.sleep(1) to its return *)
MeasureCpuMemoryAfterSleep ==
    /\ probe.of = "check_cpu_memory" /\ result = NoResult
    /\ first_read = [of |-> "check_cpu_memory",
                     val |-> get_cpu_times(CpuMemAt(probe.cpu, probe.mem).stat1).val]
    /\ result' = [of |-> "check_cpu_memory",
                  val |-> check_cpu_memory(CpuMemAt(probe.cpu, probe.mem))]
    /\ first_read' = NoRead
    /\ UNCHANGED <<pc, argv, clock, timestamp, all_checks, csv_exists, csv_file,
                   html_exists, html_file, traceback, probe>>

MeasureLoadAverage ==
    /\ probe.of = "check_load_average"
    /\ Measured("check_load_average", check_load_average(LoadAt(probe.load, probe.cores)))

MeasureZombieProcesses ==
    /\ probe.of = "check_zombie_processes"
    /\ Measured("check_zombie_processes", check_zombie_processes(ZombiesAt(probe.zombies)))

MeasureGpus ==
    /\ probe.of = "check_gpus"
    /\ Measured("check_gpus", check_gpus(GpuAt(probe.temp, probe.util)))

MeasureDiskHealth ==
    /\ probe.of = "check_disk_health"
    /\ Measured("check_disk_health", check_disk_health(SsdAt(probe.wear, probe.temp)))

MeasureDiskIo ==
    /\ probe.of = "check_disk_io"
    /\ Measured("check_disk_io",
                check_disk_io(IoAt(probe.extended, probe.r_await, probe.w_await, probe.util)))

MeasureBeegfsDiskUsage ==
    /\ probe.of = "check_beegfs_disk_usage"
    /\ Measured("check_beegfs_disk_usage",
                check_beegfs_disk_usage(BeegfsAt(probe.pct, probe.used)))

NextThreshold ==
    \/ MeasureCpuMemory
    \/ MeasureCpuMemoryAfterSleep
    \/ MeasureLoadAverage
    \/ MeasureZombieProcesses
    \/ MeasureGpus
    \/ MeasureDiskHealth
    \/ MeasureDiskIo
    \/ MeasureBeegfsDiskUsage

SpecThreshold == InitThreshold /\ [][NextThreshold]_vars

(* C7: in every check with a warn threshold, a measurement equal to the      *)
(* threshold is reported ATENÇÃO, not NORMAL: CPU and memory usage, load     *)
(* ratio, zombie count, GPU temperature and utilisation, SSD wear and        *)
(* temperature, I/O await (read, write, combined) and utilisation, BeeGFS    *)
(* usage per partition and aggregate.                                        *)
C7_ThresholdEquality ==
    /\ result.of = "check_cpu_memory" =>
           /\ result.val.exc = ""
           /\ probe.cpu = 10 * CPU_THRESHOLD_WARN => result.val.val[1].status = ATENCAO
           /\ probe.mem = 10 * MEM_THRESHOLD_WARN => result.val.val[2].status = ATENCAO
    /\ (result.of = "check_load_average"
            /\ probe.load * LOAD_AVERAGE_RATIO_WARN[2]
                 = 10 * LOAD_AVERAGE_RATIO_WARN[1] * probe.cores) =>
           (result.val.exc = "" /\ result.val.val.status = ATENCAO)
    /\ (result.of = "check_zombie_processes"
            /\ probe.zombies = ZOMBIE_PROCESS_THRESHOLD_WARN) =>
           (result.val.exc = "" /\ result.val.val.status = ATENCAO)
    /\ (result.of = "check_gpus"
            /\ (probe.temp = 10 * GPU_TEMP_THRESHOLD_WARN
                   \/ probe.util = 10 * GPU_UTIL_THRESHOLD_WARN)) =>
           (result.val.exc = "" /\ Len(result.val.val) = 1
            /\ result.val.val[1].status = ATENCAO)
    /\ (result.of = "check_disk_health"
            /\ (probe.wear = 10 * SSD_PERCENTAGE_USED_THRESHOLD_WARN
                   \/ probe.temp = SSD_TEMPERATURE_THRESHOLD_WARN)) =>
           (result.val.exc = "" /\ Len(result.val.val) = 1
            /\ result.val.val[1].status = ATENCAO)
    /\ (result.of = "check_disk_io"
            /\ (\/ probe.r_await = 10 * IO_AWAIT_THRESHOLD_WARN
                \/ (probe.extended /\ probe.w_await = 10 * IO_AWAIT_THRESHOLD_WARN)
                \/ probe.util = 10 * IO_UTIL_THRESHOLD_WARN)) =>
           (result.val.exc = "" /\ Len(result.val.val) = 1
            /\ result.val.val[1].status = ATENCAO)
    /\ result.of = "check_beegfs_disk_usage" =>
           /\ result.val.exc = "" /\ Len(result.val.val) = 2
           /\ probe.pct = BEEGFS_USAGE_THRESHOLD_WARN => result.val.val[1].status = ATENCAO
           /\ probe.used = 10 * BEEGFS_USAGE_THRESHOLD_WARN =>
                  result.val.val[2].status = ATENCAO

(* C7 witness: a 1 minute load of exactly 1.5 per core on two cores was *)
(* reported ATENÇÃO                                                      *)
C7_Witness ==
    /\ result.of = "check_load_average"
    /\ probe.cores = 2 /\ probe.load = 30
    /\ result.val.val.status = ATENCAO

-----------------------------------------------------------------------------
(* The memory part of check_cpu_memory on its own: the input is the content *)
(* of /proc/meminfo, the action runs the check                              *)

MaxMem == 2

KbValues == {10 * n : n \in 0..MaxMem}

(* /proc/meminfo with the lines the kernel writes, MemAvailable among them *)
MemInfoFull(total, free, available, buffers, cached, sreclaimable) ==
    [err |-> "",
     lines |-> << <<W("MemTotal:"), I(total), W("kB")>>, <<W("MemFree:"), I(free), W("kB")>>,
                  <<W("MemAvailable:"), I(available), W("kB")>>,
                  <<W("Buffers:"), I(buffers), W("kB")>>, <<W("Cached:"), I(cached), W("kB")>>,
                  <<W("SReclaimable:"), I(sreclaimable), W("kB")>> >>]

(* mem_usage as the try block of the memory part computes it from the file *)
mem_sample_usage(meminfo) ==
    mem_usage_of(mem_info_get(meminfo.lines, "MemTotal"),
                 mem_info_get(meminfo.lines, "MemFree"),
                 mem_info_get(meminfo.lines, "Buffers"),
                 mem_info_get(meminfo.lines, "Cached"),
                 mem_info_get(meminfo.lines, "SReclaimable"))

InitMem ==
    /\ InitIdle
    /\ probe \in [of : {"mem_check"}, total : {0, 100}, free : KbValues,
                  available : KbValues, buffers : KbValues, cached : KbValues,
                  sreclaimable : KbValues]

ProbeMemInfo ==
    MemInfoFull(probe.total, probe.free, probe.available, probe.buffers, probe.cached,
                probe.sreclaimable)

ApplyMemCheck ==
    /\ probe.of = "mem_check" /\ result = NoResult
    /\ result' = [of |-> "mem_check",
                  usage |-> mem_sample_usage(ProbeMemInfo),
                  val |-> mem_check(ProbeMemInfo)]
    /\ UNCHANGED <<mainVars, probe>>

NextMem == ApplyMemCheck

SpecMem == InitMem /\ [][NextMem]_vars

(* C11 as claimed: the memory usage is (total - available) / total * 100     *)
(* with available the MemAvailable figure of the kernel, and 0 for a total   *)
(* of 0.                                                                     *)
C11_UsesKernelAvailable ==
    result.of = "mem_check" =>
        IF probe.total = 0 THEN result.usage = <<0, 1>>
        ELSE IsQuotient(result.usage, 100 * (probe.total - probe.available), probe.total)

(* C11 amended: the memory usage is (total - available) / total * 100 with   *)
(* available the sum MemFree + Buffers + Cached + SReclaimable the check     *)
(* takes itself from /proc/meminfo (MemAvailable is not read), and 0 for a   *)
(* total of 0; the Finding is ATENÇÃO exactly when that usage reaches        *)
(* MEM_THRESHOLD_WARN.                                                       *)
C11_UsesReclaimableSum ==
    result.of = "mem_check" =>
        LET available == probe.free + probe.buffers + probe.cached + probe.sreclaimable
        IN /\ IF probe.total = 0 THEN result.usage = <<0, 1>>
              ELSE IsQuotient(result.usage, 100 * (probe.total - available), probe.total)
           /\ result.val.exc = ""
           /\ result.val.val.status =
                  (IF probe.total # 0
                      /\ 100 * (probe.total - available) >= MEM_THRESHOLD_WARN * probe.total
                   THEN ATENCAO ELSE NORMAL)

(* C11 witness: caches are counted as available although MemAvailable is 0 *)
C11_Witness ==
    /\ result.of = "mem_check"
    /\ probe.total = 100 /\ probe.free = 0 /\ probe.available = 0
    /\ probe.cached = 20 /\ probe.buffers = 0 /\ probe.sreclaimable = 0
    /\ RatEQ(result.usage, <<80, 1>>)
    /\ result.val.val.status = NORMAL

-----------------------------------------------------------------------------
(* ib_health_check.py: the error counters of a port.  The routines print;   *)
(* a printed line is [level, text], level being the tag of the print_*      *)
(* routine ("INFO", "OK", "AVISO", "FALHA")                                 *)

Printed(level, text) == [level |-> level, text |-> text]

(* os.waitstatus_to_exitcode: the exit status of a normal exit, else minus *)
(* the number of the signal                                                *)
waitstatus_to_exitcode(status) ==
    IF WIFEXITED(status) THEN WEXITSTATUS(status) ELSE 0 - (status % 128)

(* run_command of ib_health_check.py: the output is not stripped and the   *)
(* code is os.waitstatus_to_exitcode of what pipe.close() returned         *)
ib_run_command(proc) ==
    LET exit_status_raw == proc.rc * 256
        return_code == IF proc.rc = 0 THEN 0 ELSE waitstatus_to_exitcode(exit_status_raw)
    IN [out |-> proc.out, raw |-> proc.raw, code |-> return_code]

counters_to_check ==
    <<"SymbolErrorCounter", "LinkErrorRecoveryCounter", "LinkDownedCounter",
      "PortRcvErrors", "PortRcvRemotePhysicalErrors", "PortXmitDiscards",
      "PortRcvSwitchRelayErrors", "LinkIntegrityErrors", "VL15Dropped">>

(* what the inner loop prints for one line of perfquery; a line is          *)
(* [name, last]: the counter name the stripped line starts with (after any  *)
(* dots) and the last blank separated token                                 *)
RECURSIVE counter_line(_, _)
counter_line(line, j) ==
    IF j > Len(counters_to_check) THEN <<>>
    ELSE (IF line.name # counters_to_check[j] THEN <<>>
          ELSE IF py_int(line.last).exc # ""
          THEN <<Printed("AVISO", "Não foi possível analisar o valor para o contador: "
                                     \o counters_to_check[j])>>
          ELSE IF py_int(line.last).val > 0
          THEN <<Printed("AVISO", "Contador " \o counters_to_check[j])>>
          ELSE <<>>)
         \o counter_line(line, j + 1)

RECURSIVE counter_lines(_)
counter_lines(lines) ==
    IF lines = <<>> THEN <<>> ELSE counter_line(Head(lines), 1) \o counter_lines(Tail(lines))

(* found_errors after the loop: some counter parsed to a value above 0 *)
found_errors(lines) ==
    \E j \in 1..Len(lines) :
        /\ \E c \in 1..Len(counters_to_check) : lines[j].name = counters_to_check[c]
        /\ py_int(lines[j].last).exc = "" /\ py_int(lines[j].last).val > 0

(* check_error_counters(device, port): env = [perfquery]; the lines printed *)
check_error_counters(env) ==
    LET cmd == ib_run_command(env.perfquery)
        head == <<Printed("INFO", "Verificando contadores de erro")>>
    IN IF cmd.code # 0
       THEN head \o <<Printed("FALHA", "Não foi possível executar 'perfquery'"),
                      Printed("AVISO", "Saída do comando: " \o cmd.raw)>>
       ELSE head \o counter_lines(cmd.out)
              \o (IF found_errors(cmd.out) THEN <<>>
                  ELSE <<Printed("OK", "Nenhum contador de erro crítico com valor elevado foi encontrado.")>>)

-----------------------------------------------------------------------------
(* The InfiniBand check and the tool probes on their own: the input is what *)
(* the commands of the host answer, the action runs the check as main does  *)

MaxPorts == 2
MaxErrors == 1

ExitCodes == {0, 1, 127}

(* a port of the adapter: its State, Physical state and Link layer lines *)
PortStates ==
    {[state |-> st, phys |-> ph, layer |-> ly] :
        st \in {"Active", "Down"}, ph \in {"LinkUp", "Polling"},
        ly \in {"InfiniBand", "Ethernet"}}

(* the ports of the adapter, in the order ibstat lists them *)
PortLists == UNION {[1..n -> PortStates] : n \in 1..MaxPorts}

(* the block of ibstat for port j *)
PortBlock(j, port) ==
    << KV("Port " \o ToString(j), ""), KV("State", port.state),
       KV("Physical state", port.phys), KV("Rate", "100"), KV("Base lid", "1"),
       KV("Port GUID", "0x1"), KV("Link layer", port.layer) >>

RECURSIVE PortBlocks(_, _)
PortBlocks(ports, j) ==
    IF j > Len(ports) THEN <<>> ELSE PortBlock(j, ports[j]) \o PortBlocks(ports, j + 1)

(* ibnetdiscover: a line joining the adapter to a switch, no such line, or *)
(* the command failing                                                      *)
Topology(topo) ==
    CASE topo = "peer" ->
             Proc(<< [ca |-> FALSE, sw |-> FALSE, quoted |-> TRUE, name |-> "MF0;sw1"],
                     [ca |-> TRUE, sw |-> TRUE, quoted |-> TRUE, name |-> "MF0;sw1"] >>,
                  "Ca -> SW", 0)
      [] topo = "nopeer" ->
             Proc(<< [ca |-> FALSE, sw |-> FALSE, quoted |-> TRUE, name |-> "MF0;sw1"] >>,
                  "Switch", 0)
      [] OTHER -> Proc(<<>>, "ibnetdiscover: failed", 1)

(* perfquery answering in blank separated form, every counter at n *)
PerfQuery(rc, n) ==
    Proc(<< [name |-> "PortSelect", last |-> I(1)],
            [name |-> "SymbolErrorCounter", last |-> I(n)],
            [name |-> "PortXmitDiscards", last |-> I(n)] >>,
         "SymbolErrorCounter", rc)

(* perfquery answering as the tool prints: name, dots and value in one token *)
PerfQueryDotted(rc, n) ==
    Proc(<< [name |-> "SymbolErrorCounter",
             last |-> W("SymbolErrorCounter:.............." \o ToString(n))] >>,
         "SymbolErrorCounter", rc)

IbEnvOf(p) ==
    [version |-> Proc(<<>>, "ibstat", p.version),
     ibstat |-> Proc(<<KV("CA 'mlx5_0'", "")>> \o PortBlocks(p.ports, 1), "CA 'mlx5_0'", p.ibstat),
     ibnetdiscover |-> Topology(p.topo),
     perfquery |-> PerfQuery(0, p.errors)]

InitIb ==
    /\ InitIdle
    /\ \/ probe \in [of : {"check_infiniband"}, version : ExitCodes, ibstat : {0, 1},
                     ports : PortLists, topo : {"peer", "nopeer", "failed"},
                     errors : 0..MaxErrors]
       \/ probe \in [of : {"check_error_counters"}, rc : {0, 1}, dotted : BOOLEAN,
                     errors : 0..MaxErrors]
       \/ probe \in [of : {"check_gpus", "check_disk_health", "check_disk_io"},
                     rc : ExitCodes]

(* ib_check = check_infiniband(); if ib_check: all_checks.append(ib_check) *)
ApplyCheckInfiniband ==
    /\ probe.of = "check_infiniband" /\ result = NoResult
    /\ result' = [of |-> "check_infiniband",
                  val |-> check_infiniband(IbEnvOf(probe)),
                  commands |-> check_infiniband_commands(IbEnvOf(probe))]
    /\ all_checks' = all_checks \o check_infiniband(IbEnvOf(probe)).val
    /\ UNCHANGED <<pc, argv, clock, timestamp, csv_exists, csv_file, html_exists, html_file,
                   traceback, probe, first_read>>

ApplyCheckErrorCounters ==
    /\ probe.of = "check_error_counters" /\ result = NoResult
    /\ result' = [of |-> "check_error_counters",
                  val |-> check_error_counters(
                              [perfquery |-> IF probe.dotted
                                             THEN PerfQueryDotted(probe.rc, probe.errors)
                                             ELSE PerfQuery(probe.rc, probe.errors)])]
    /\ UNCHANGED <<mainVars, probe>>

(* the check of a host whose probe command ('nvidia-smi -L', 'smartctl -V', *)
(* 'iostat -V') ends with probe.rc                                          *)
ApplyProbeGpus ==
    /\ probe.of = "check_gpus" /\ result = NoResult
    /\ result' = [of |-> "check_gpus",
                  val |-> check_gpus([GpuAt(500, 500) EXCEPT
                                         !.list = Proc(<<>>, "nvidia-smi", probe.rc)])]
    /\ UNCHANGED <<mainVars, probe>>

ApplyProbeDiskHealth ==
    /\ probe.of = "check_disk_health" /\ result = NoResult
    /\ result' = [of |-> "check_disk_health",
                  val |-> check_disk_health([SsdAt(100, 30) EXCEPT
                                                !.version = Proc(<<>>, "smartctl", probe.rc)])]
    /\ UNCHANGED <<mainVars, probe>>

ApplyProbeDiskIo ==
    /\ probe.of = "check_disk_io" /\ result = NoResult
    /\ result' = [of |-> "check_disk_io",
                  val |-> check_disk_io([IoAt(TRUE, 10, 10, 10) EXCEPT
                                            !.iostat_version = Proc(<<>>, "iostat", probe.rc)])]
    /\ UNCHANGED <<mainVars, probe>>

NextIb ==
    \/ ApplyCheckInfiniband
    \/ ApplyCheckErrorCounters
    \/ ApplyProbeGpus
    \/ ApplyProbeDiskHealth
    \/ ApplyProbeDiskIo

SpecIb == InitIb /\ [][NextIb]_vars

-----------------------------------------------------------------------------
(* Properties of the InfiniBand check and of the tool probes, under SpecIb *)

Healthy(port) == port.state = "Active" /\ port.phys = "LinkUp"

(* the InfiniBand ports of the probed adapter: those whose Link layer is *)
(* InfiniBand, and among them those not Active and LinkUp                *)
IbPorts == {j \in 1..Len(probe.ports) : probe.ports[j].layer = "InfiniBand"}

UnhealthyPorts == {j \in IbPorts : ~Healthy(probe.ports[j])}

(* check_infiniband ran with ibstat installed and answering *)
IbStatAnswered ==
    result.of = "check_infiniband" /\ probe.version = 0 /\ probe.ibstat = 0

WithStatus(fs, status) == {j \in 1..Len(fs) : fs[j].status = status}

FailP1(fs) == {j \in 1..Len(fs) : fs[j].status = FALHA /\ fs[j].priority = P1}

(* C12: every InfiniBand port whose State is not Active or whose Physical   *)
(* state is not LinkUp is reported by a Finding of its own with status      *)
(* FALHA and priority P1.                                                   *)
C12_UnhealthyPortFailsP1 ==
    (IbStatAnswered /\ UnhealthyPorts # {}) =>
        Cardinality(FailP1(result.val.val)) >= Cardinality(UnhealthyPorts)

(* C13: with every InfiniBand port Active and LinkUp and no line of ibnetdiscover      *)
(* joining the adapter to a switch, each port yields exactly one FALHA/P1   *)
(* Finding and no NORMAL Finding is emitted.                                *)
C13_UnconnectedPortFails ==
    (IbStatAnswered /\ IbPorts # {} /\ UnhealthyPorts = {} /\ probe.topo = "nopeer") =>
        /\ Cardinality(FailP1(result.val.val)) = Cardinality(IbPorts)
        /\ WithStatus(result.val.val, NORMAL) = {}

(* C14: when ibstat shows a port that is not Active and LinkUp, the check   *)
(* returns without running ibnetdiscover.                                   *)
C14_NoTopologyAfterFail ==
    (IbStatAnswered /\ UnhealthyPorts # {}) =>
        \A j \in 1..Len(result.commands) : result.commands[j] # "ibnetdiscover"

(* C15: with Port 1 Active/LinkUp and joined to a switch in ibnetdiscover   *)
(* and Port 2 Down, the result has exactly one FALHA Finding and one NORMAL *)
(* summary Finding.                                                         *)
C15_PerPortFindings ==
    (IbStatAnswered /\ IbPorts = {1, 2} /\ Healthy(probe.ports[1])
         /\ probe.ports[2].state = "Down" /\ probe.topo = "peer") =>
        /\ Cardinality(WithStatus(result.val.val, FALHA)) = 1
        /\ Cardinality(WithStatus(result.val.val, NORMAL)) = 1

(* C16: when 'ibstat -V' ends with 127 (command not found) the check runs   *)
(* no other command, returns None and main appends nothing to all_checks.   *)
C16_NoToolNoFinding ==
    (result.of = "check_infiniband" /\ probe.version = 127) =>
        /\ result.val = Return(<<>>)
        /\ all_checks = <<>>
        /\ result.commands = <<"ibstat -V">>

(* C16 witness: ibstat is absent on a host and the check has returned *)
C16_Witness ==
    /\ result.of = "check_infiniband" /\ probe.version = 127
    /\ probe.ibstat = 1 /\ probe.topo = "failed"
    /\ all_checks = <<>>

ProbeCode == IF probe.of = "check_infiniband" THEN probe.version ELSE probe.rc

(* C17: for the checks that probe a tool (ibstat, smartctl, iostat,         *)
(* nvidia-smi), exit code 127 of the probe gives an empty result, and any   *)
(* other nonzero exit code gives a FALHA Finding with priority P1 or P2.    *)
C17_OnlySentinelSkips ==
    result.of \in {"check_infiniband", "check_gpus", "check_disk_health", "check_disk_io"} =>
        /\ ProbeCode = 127 => result.val.val = <<>>
        /\ ProbeCode \notin {0, 127} =>
               \E j \in 1..Len(result.val.val) :
                   /\ result.val.val[j].status = FALHA
                   /\ result.val.val[j].priority \in {P1, P2}

FirstInfiniband(fs) ==
    LET at == {j \in 1..Len(fs) : fs[j].category = "Rede de Alta Performance"}
    IN CHOOSE j \in at : \A i \in at : j <= i

(* C18: with every InfiniBand port (a port whose Link layer is InfiniBand)   *)
(* Active and LinkUp and the adapter joined to a switch in ibnetdiscover,   *)
(* whatever the state of the Ethernet ports of the adapter, the check emits *)
(* exactly one NORMAL Finding with priority P4, and it is the first         *)
(* InfiniBand Finding of all_checks.                                        *)
C18_OneNormalSummaryFirst ==
    (IbStatAnswered /\ IbPorts # {} /\ UnhealthyPorts = {} /\ probe.topo = "peer") =>
        /\ result.val.exc = "" /\ Len(result.val.val) = 1
        /\ result.val.val[1].status = NORMAL /\ result.val.val[1].priority = P4
        /\ Cardinality(WithStatus(all_checks, NORMAL)) = 1
        /\ all_checks[FirstInfiniband(all_checks)] = result.val.val[1]

(* C19: a port that is Active and LinkUp and has a nonzero error counter is *)
(* reported by a Finding with status ATENÇÃO and priority P3, and by no     *)
(* FALHA Finding; check_error_counters prints a warning naming the counter  *)
(* and prints no failure.                                                   *)
C19_CountersWarnP3 ==
    /\ (IbStatAnswered /\ IbPorts # {} /\ UnhealthyPorts = {} /\ probe.errors > 0) =>
           /\ \E j \in 1..Len(result.val.val) :
                  result.val.val[j].status = ATENCAO /\ result.val.val[j].priority = P3
           /\ WithStatus(result.val.val, FALHA) = {}
    /\ (result.of = "check_error_counters" /\ probe.rc = 0 /\ ~probe.dotted
            /\ probe.errors > 0) =>
           /\ \E j \in 1..Len(result.val) :
                  result.val[j] = Printed("AVISO", "Contador SymbolErrorCounter")
           /\ \A j \in 1..Len(result.val) : result.val[j].level # "FALHA"

-----------------------------------------------------------------------------
(* Properties of the report file over several runs, under Spec *)

(* C20: in a run without --test-html, a report decision taken with only     *)
(* NORMAL Findings and no --force-html leaves the HTML report as it was     *)
(* (not created, not modified); the report changes only at the decision of  *)
(* a run that has an ATENÇÃO or FALHA Finding or was forced, and then shows *)
(* that run; the start of the next run leaves it alone.  The report         *)
(* therefore shows the most recent run that wrote it.                       *)
C20_ReportUntouched ==
    [][/\ (pc = "report" /\ ~argv.test /\ ~argv.force /\ ~AnyWarnOrFail) =>
              /\ html_file' = html_file /\ html_exists' = html_exists
              /\ pc' = "report_skipped"
       /\ (~argv.test /\ clock' = clock
              /\ (html_file' # html_file \/ html_exists' # html_exists)) =>
              /\ pc = "report" /\ (AnyWarnOrFail \/ argv.force)
              /\ html_exists' /\ html_file'.timestamp = timestamp
       /\ clock' # clock => (html_file' = html_file /\ html_exists' = html_exists)]_vars

(* C20 witness: the second run found nothing and was not forced, and the   *)
(* report still shows the first run                                         *)
C20_Witness ==
    /\ clock = 2 /\ pc = "done" /\ ~argv.test /\ ~argv.force /\ ~AnyWarnOrFail
    /\ html_exists /\ html_file.timestamp = strftime(1)
    /\ html_file.body # <<>>

-----------------------------------------------------------------------------
(* The --test-html mode of main (lines 1082-1092), under Spec *)

(* the Findings an invocation works on: the example data under --test-html, *)
(* the Findings of the checks otherwise                                     *)
FindingSet == IF argv.test THEN generate_test_data ELSE all_checks

IsSuffix(s, t) == Len(s) <= Len(t) /\ SubSeq(t, Len(t) - Len(s) + 1, Len(t)) = s

(* C21: every invocation that returns, --test-html included, has appended   *)
(* the CSV rows of its Findings (the example data under --test-html) as the *)
(* last rows of the log; under --test-html no check has run.                *)
C21_DemoCsvRows ==
    pc = "done" =>
        /\ IsSuffix(csv_rows(FindingSet, timestamp), csv_file)
        /\ argv.test => all_checks = <<>>

-----------------------------------------------------------------------------
(* generate_html_report on lists of Findings and their permutations *)

MaxFindings == 3

(* Findings of two categories; the first two share category and item *)
ReportPool ==
    { Finding("Recursos de GPU", "GPU 0: NVIDIA A100", NORMAL, P4, "Temp: 65.0°C"),
      Finding("Recursos de GPU", "GPU 0: NVIDIA A100", ATENCAO, P2, "Temp: 92.0°C"),
      Finding("Recursos de GPU", "GPU 1: NVIDIA A100", NORMAL, P4, "Temp: 65.0°C"),
      Finding("Saúde da Rede", "Interface eth0", ATENCAO, P3, "Erros: 102"),
      Finding("Hardware e S.O.", "Logs do Kernel (dmesg)", NORMAL, P4, "Nenhum erro") }

FindingLists == UNION {[1..n -> ReportPool] : n \in 0..MaxFindings}

Shuffles(n) == {f \in [1..n -> 1..n] : \A i, j \in 1..n : f[i] = f[j] => i = j}

Permuted(checks, f) == [j \in 1..Len(checks) |-> checks[f[j]]]

InitReport ==
    /\ InitIdle
    /\ \E checks \in FindingLists : \E f \in Shuffles(Len(checks)) :
           probe = [of |-> "generate_html_report", checks |-> checks,
                    shuffled |-> Permuted(checks, f)]

(* generate_html_report(all_checks, timestamp, hostname) on the list *)
ApplyGenerateHtmlReport ==
    /\ probe.of = "generate_html_report" /\ result = NoResult
    /\ html_exists' = TRUE
    /\ html_file' = html_content(probe.checks, strftime(clock), run_command(Hostname).raw)
    /\ result' = [of |-> "generate_html_report", val |-> html_file', calls |-> 1]
    /\ UNCHANGED <<pc, argv, clock, timestamp, all_checks, csv_exists, csv_file,
                   traceback, probe, first_read>>

(* generate_html_report called again, on the permuted list: the file is *)
(* opened with mode 'w' and holds the second document only              *)
ApplyGenerateHtmlReportShuffled ==
    /\ result.of = "generate_html_report" /\ result.calls = 1
    /\ html_exists' = TRUE
    /\ html_file' = html_content(probe.shuffled, strftime(clock), run_command(Hostname).raw)
    /\ result' = [result EXCEPT !.calls = 2]
    /\ UNCHANGED <<pc, argv, clock, timestamp, all_checks, csv_exists, csv_file,
                   traceback, probe, first_read>>

NextReport == ApplyGenerateHtmlReport \/ ApplyGenerateHtmlReportShuffled

SpecReport == InitReport /\ [][NextReport]_vars

BothRendered == result.of = "generate_html_report" /\ result.calls = 2

SameKey(a, b) == a.category = b.category /\ a.item = b.item

(* the Findings with the category and item of c, in list order *)
WithKey(checks, c) == SelectSeq(checks, LAMBDA x : SameKey(x, c))

(* the permutation leaves Findings of equal category and item in their order *)
KeepsDuplicateOrder ==
    \A c \in ReportPool : WithKey(probe.checks, c) = WithKey(probe.shuffled, c)

(* C22 as claimed: the rendered document is the same for every permutation *)
(* of the Finding list, Findings sharing category and item included        *)
C22_PermutationInvariant ==
    BothRendered => html_file = result.val

(* C22: the report lists the categories in increasing order, each once, and *)
(* within a category the Findings by item, Findings of one item in list     *)
(* order, every Finding rendered once; so the document is the same for      *)
(* every permutation that keeps Findings of equal category and item in      *)
(* their relative order.                                                    *)
C22_SortedStable ==
    BothRendered =>
        LET body == html_file.body
        IN /\ \A j \in 1..(Len(body) - 1) : StrLess(body[j].category, body[j + 1].category)
           /\ \A j \in 1..Len(body) :
                  /\ \A k \in 1..(Len(body[j].items) - 1) :
                         ~StrLess(body[j].items[k + 1].item, body[j].items[k].item)
                  /\ \A c \in ReportPool :
                         c.category = body[j].category =>
                             SelectSeq(body[j].items, LAMBDA x : x.item = c.item) =
                                 [k \in 1..Len(WithKey(probe.shuffled, c)) |->
                                      html_item(WithKey(probe.shuffled, c)[k])]
           /\ SumSeq([j \in 1..Len(body) |-> Len(body[j].items)]) = Len(probe.shuffled)
           /\ KeepsDuplicateOrder => html_file = result.val

(* C22 witness: three Findings, two of them with the same category and item *)
(* and different details, permuted without swapping those two, and the two  *)
(* documents are equal                                                      *)
C22_Witness ==
    /\ BothRendered
    /\ Len(probe.checks) = 3 /\ probe.shuffled # probe.checks
    /\ \E i, j \in 1..3 : i # j /\ SameKey(probe.checks[i], probe.checks[j])
                          /\ probe.checks[i] # probe.checks[j]
    /\ KeepsDuplicateOrder
    /\ html_file = result.val
    /\ Len(html_file.body) = 2

-----------------------------------------------------------------------------
(* The checks on the inputs that take them through each of their paths: *)
(* one check is applied to one environment and result holds its return  *)

MaxIfaces == 2

(* a line of /proc/net/dev after the two header lines: 17 fields, or the *)
(* interface name alone                                                  *)
NetDevLine(name, rx_errs, tx_drop) ==
    <<W(name), I(10), I(10), I(rx_errs), I(0), I(0), I(0), I(0), I(0),
      I(10), I(10), I(0), I(tx_drop), I(0), I(0), I(0), I(0)>>

NetDevLines ==
    {NetDevLine(name, e, d) : name \in {"lo:", "eth0:", "ib0:", "virbr0:"},
                              e \in {0, 1}, d \in {0, 1}}
        \cup {<<W("eth0:")>>}

NetDevFiles ==
    {[err |-> "IOError", lines |-> <<>>]}
        \cup {[err |-> "", lines |-> NetHeader \o body] :
                  body \in UNION {[1..n -> NetDevLines] : n \in 0..MaxIfaces}}

(* the outputs of ps axo stat | grep -c '^Z' and the codes it ends with *)
PsOutputs ==
    {Proc(<< <<I(n)>> >>, ToString(n), rc) : n \in {0, 4, 5}, rc \in {0, 1, 2}}
        \cup {Proc(<<>>, "", rc) : rc \in {0, 1, 2}}

(* the outputs of uptime -s, the boot date given in seconds, with now = 700000 *)
UptimeOutputs ==
    {Proc(<< <<I(boot)>> >>, "2025-12-01 00:00:00", rc) :
         boot \in {0, 700000 - UPTIME_MIN_SECONDS, 700001 - UPTIME_MIN_SECONDS},
         rc \in {0, 1}}
        \cup {Proc(<< <<W("up")>> >>, "up", 0)}

(* what systemctl status prints for a unit: not found (two wordings), *)
(* running, running with a journal line under the status block, dead, *)
(* and no status block at all                                         *)
ServiceOutputs ==
    { ServiceAbsent,
      Proc(<<KV("Loaded", "not-found (Reason: No such file or directory)"),
             KV("Active", "inactive (dead)")>>, "Loaded: not-found", 3),
      ServiceRunning,
      Proc(<<KV("Loaded", "loaded"), KV("Active", "active (running) since today"),
             KV("Dec 09 00", "00:01 node01 mysqld[812]: Table 'jobs' could not be found")>>,
           "Active: active (running) since today", 0),
      Proc(<<KV("Loaded", "loaded"), KV("Active", "inactive (dead)")>>,
           "Active: inactive (dead)", 3),
      Proc(<<KV("Failed to connect to bus", "No such file or directory")>>,
           "Failed to connect to bus: No such file or directory", 1) }

MaxDisks == 2

(* names ls /sys/block prints, each at most once *)
DiskNames == {"sda", "nvme0n1", "loop0"}

DiskListings ==
    UNION {{names \in [1..n -> DiskNames] :
                \A i, j \in 1..n : names[i] = names[j] => i = j} : n \in 0..MaxDisks}

(* what smartctl -H, cat .../queue/rotational and smartctl -A print for a  *)
(* device: the health phrase (or none, with an error code), spinning or   *)
(* not, attributes within the limits or a worn device with the critical   *)
(* warning set                                                            *)
DiskStates ==
    [health : {Proc({"PASSED"}, "PASSED", 0), Proc({"FAILED"}, "FAILED", 8),
               Proc({"Disabled"}, "Disabled", 4), Proc({"Unavailable"}, "Unavailable", 4),
               Proc({}, "Permission denied", 2)},
     rotational : {Proc(<<>>, "0", 0), Proc(<<>>, "1", 0)},
     attrs : {Proc(<< [name |-> "Percentage Used", last |-> D(100)],
                      [name |-> "Temperature_Celsius", last |-> I(40)] >>, "", 0),
              Proc(<< [name |-> "Critical Warning", last |-> I(1)],
                      [name |-> "Percentage Used", last |-> D(900)] >>, "", 0)}]

(* what subprocess reports for the shell child of os.popen: its exit status, *)
(* or minus the number of the signal that ended it                           *)
ReturnCodes == {0, 1, 2, 3, 126, 127, 255} \cup {-15, -9, -1}

(* the first field of /proc/loadavg: numbers on both sides of the limit, the *)
(* words float() reads as numbers and a word it rejects                      *)
LoadWords ==
    {D(5), D(80), W("nan"), W("inf"), W("-inf"), W("abc"), W("+NaN"), W("nAn"),
     W("INFINITY"), W("+Inf"), W("iNf"), W("-INFINItY"), W("infinit"), W("--inf"),
     FL("1e3", 1000, 1), FL(".5", 5, 10), FL("5.", 5, 1), IT("1_0", 10)}

(* a value standing for a line that ibstat does not print *)
NoLine == "(no line)"

OptLine(head, v) == IF v = NoLine THEN <<>> ELSE <<KV(head, v)>>

(* ibstat for one port, each of the State, Physical state and Rate lines *)
(* present with a value, present with no value, or missing               *)
IbStatLayout(p) ==
    <<KV("CA 'mlx5_0'", ""), KV("Port 1", "")>> \o OptLine("State", p.state)
        \o OptLine("Physical state", p.phys) \o OptLine("Rate", p.rate)
        \o <<KV("Port GUID", "0x1")>>

InitChecks ==
    /\ InitIdle
    /\ \/ probe \in [of : {"check_network_errors"}, netdev : NetDevFiles]
       \/ probe \in [of : {"run_command"}, rc : ReturnCodes]
       \/ \E names \in DiskListings :
              probe \in [of : {"check_disk_health"}, names : {names},
                         disk : [1..Len(names) -> DiskStates]]
       \/ probe \in [of : {"check_services"},
                     services : [1..Len(SERVICES_TO_CHECK) -> ServiceOutputs]]
       \/ probe \in [of : {"check_zombie_processes"}, ps : PsOutputs]
       \/ probe \in [of : {"check_uptime"}, uptime : UptimeOutputs]
       \/ probe \in [of : {"check_load_average"}, load : LoadWords, cores : {1, 4}]
       \/ probe \in [of : {"check_infiniband"},
                     state : {"Active", "Down", "", NoLine},
                     phys : {"LinkUp", "Disabled", NoLine},
                     rate : {"100", "", NoLine},
                     topo : {"peer", "failed"}]

ApplyCheckLoadAverageWords ==
    /\ probe.of = "check_load_average"
    /\ Measured("check_load_average",
                AsList(check_load_average(
                    [loadavg |-> LoadAvg(probe.load),
                     nproc |-> Proc(<< <<I(probe.cores)>> >>, ToString(probe.cores), 0)])))

ApplyCheckInfinibandLayout ==
    /\ probe.of = "check_infiniband"
    /\ Measured("check_infiniband",
                check_infiniband([version |-> Proc(<<>>, "ibstat", 0),
                                  ibstat |-> Proc(IbStatLayout(probe), "CA 'mlx5_0'", 0),
                                  ibnetdiscover |-> Topology(probe.topo)]))

ApplyCheckNetworkErrors ==
    /\ probe.of = "check_network_errors"
    /\ Measured("check_network_errors", check_network_errors([netdev |-> probe.netdev]))

ApplyCheckZombieProcesses ==
    /\ probe.of = "check_zombie_processes"
    /\ Measured("check_zombie_processes",
                AsList(check_zombie_processes([ps |-> probe.ps])))

ApplyCheckUptime ==
    /\ probe.of = "check_uptime"
    /\ Measured("check_uptime",
                AsList(check_uptime([uptime |-> probe.uptime, now |-> 700000])))

(* one command run through both run_command routines *)
ApplyRunCommand ==
    /\ probe.of = "run_command" /\ result = NoResult
    /\ LET proc == Proc(<<>>, "", probe.rc)
       IN result' = [of |-> "run_command", code |-> run_command(proc).code,
                     return_code |-> ib_run_command(proc).code]
    /\ UNCHANGED <<mainVars, probe>>

ApplyCheckServices ==
    /\ probe.of = "check_services"
    /\ Measured("check_services", check_services([services |-> probe.services]))

(* the commands of check_disk_health on the probed devices *)
DiskEnv(names, disk) ==
    [version |-> Proc(<<>>, "smartctl 7.2", 0),
     ls |-> Proc([j \in 1..Len(names) |-> <<W(names[j])>>], "sda", 0),
     disk |-> disk]

ApplyCheckDiskHealth ==
    /\ probe.of = "check_disk_health"
    /\ Measured("check_disk_health", check_disk_health(DiskEnv(probe.names, probe.disk)))

NextChecks ==
    \/ ApplyRunCommand
    \/ ApplyCheckDiskHealth
    \/ ApplyCheckServices
    \/ ApplyCheckNetworkErrors
    \/ ApplyCheckZombieProcesses
    \/ ApplyCheckUptime
    \/ ApplyCheckLoadAverageWords
    \/ ApplyCheckInfinibandLayout

SpecChecks == InitChecks /\ [][NextChecks]_vars

(* the Findings the applied check returned *)
Returned ==
    IF result = NoResult \/ result.of = "run_command" THEN <<>>
    ELSE IF result.val.exc # "" THEN <<>>
    ELSE result.val.val

-----------------------------------------------------------------------------
(* The status and priority pairs of the Findings, under SpecChecks *)

(* the priorities the convention allows for a status *)
PriorityConvention(status) ==
    IF status = NORMAL THEN {P4}
    ELSE IF status = ATENCAO THEN {P2, P3}
    ELSE {P1, P2}

(* C23: every Finding a check returns has a priority consistent with its *)
(* status: NORMAL with P4, ATENÇÃO with P2 or P3, FALHA with P1 or P2.    *)
C23_PriorityMatchesStatus ==
    \A j \in 1..Len(Returned) :
        Returned[j].priority \in PriorityConvention(Returned[j].status)

-----------------------------------------------------------------------------
(* The exit codes of the two run_command routines, under SpecChecks *)

(* C24: run_command of monitor_hpc returns code 0 exactly when the command *)
(* exited with status 0, the command's own exit status (127 included) when *)
(* it exited with another status, and a code other than 0 when a signal    *)
(* ended it; run_command of ib_health_check returns the same code for      *)
(* every command that exited.                                              *)
C24_ExitCodes ==
    result.of = "run_command" =>
        /\ result.code = 0 <=> probe.rc = 0
        /\ probe.rc > 0 => result.code = probe.rc
        /\ probe.rc < 0 => result.code # 0
        /\ probe.rc >= 0 => result.return_code = result.code

(* C24 witness: a command that was not found, reported with code 127 by both *)
C24_Witness ==
    /\ result.of = "run_command" /\ probe.rc = 127
    /\ result.code = 127 /\ result.return_code = 127

-----------------------------------------------------------------------------
(* The two Findings of check_cpu_memory, under SpecCpu *)

(* check_cpu_memory on the probed files with the two reads of /proc/stat *)
(* replaced by good samples, and with /proc/meminfo replaced by a good   *)
(* file                                                                  *)
WithGoodCpu ==
    check_cpu_memory([stat1 |-> StatLine(300, 700), stat2 |-> StatLine(350, 750),
                      meminfo |-> probe.meminfo])

WithGoodMemory ==
    check_cpu_memory([stat1 |-> probe.stat1, stat2 |-> probe.stat2,
                      meminfo |-> MemInfo(100, 60)])

(* C26: check_cpu_memory returns two Findings on every path, 'Uso de CPU' *)
(* then 'Uso de Memória'; the memory Finding is the one returned when the *)
(* CPU samples are good, whatever happened while sampling the CPU, and    *)
(* the CPU Finding is the one returned when /proc/meminfo is good,        *)
(* whatever happened while reading the memory.                            *)
C26_TwoIndependentFindings ==
    result.of = "check_cpu_memory" =>
        /\ result.val.exc = ""
        /\ Len(result.val.val) = 2
        /\ result.val.val[1].item = "Uso de CPU"
        /\ result.val.val[2].item = "Uso de Memória"
        /\ result.val.val[2] = WithGoodCpu.val[2]
        /\ result.val.val[1] = WithGoodMemory.val[1]

(* C26 witness: /proc/stat could not be read and the memory Finding is the *)
(* warning of a host at 90 percent                                         *)
C26_Witness ==
    /\ result.of = "check_cpu_memory"
    /\ probe.stat1 = Unreadable /\ probe.meminfo = MemInfo(100, 10)
    /\ result.val.val[1].status = FALHA
    /\ result.val.val[2].status = ATENCAO /\ result.val.val[2].priority = P2

-----------------------------------------------------------------------------
(* The Findings of check_services, under SpecChecks *)

(* systemctl reports the unit as not found: its status block says so *)
ReportsNotFound(lines) ==
    \E j \in 1..Len(lines) :
        \/ lines[j].head = "Unit could not be found."
        \/ (lines[j].head = "Loaded"
               /\ lines[j].val = "not-found (Reason: No such file or directory)")

(* the first line starting with 'Active:' contains 'active (running)' *)
FirstActiveRunning(lines) ==
    \E j \in 1..Len(lines) :
        /\ lines[j].head = "Active"
        /\ \A i \in 1..(j - 1) : lines[i].head # "Active"
        /\ lines[j].val \in {"active (running)", "active (running) since today"}

(* the services systemctl did not report as not found, in SERVICES_TO_CHECK order *)
FoundServices ==
    SelectSeq([j \in 1..Len(SERVICES_TO_CHECK) |-> j],
              LAMBDA j : ~ReportsNotFound(probe.services[j].out))

(* C28: check_services returns, in SERVICES_TO_CHECK order, no Finding for *)
(* a service systemctl reports as not found and one Finding for every      *)
(* other service: NORMAL/P4 exactly when the first 'Active:' line contains *)
(* 'active (running)', FALHA/P1 otherwise, also without an 'Active:' line. *)
C28_ServiceFindings ==
    result.of = "check_services" =>
        /\ Len(Returned) = Len(FoundServices)
        /\ \A k \in 1..Len(FoundServices) :
               k <= Len(Returned) =>
                   LET j == FoundServices[k]
                       running == FirstActiveRunning(probe.services[j].out)
                   IN /\ Returned[k].item = "Serviço: " \o SERVICES_TO_CHECK[j]
                      /\ Returned[k].status = (IF running THEN NORMAL ELSE FALHA)
                      /\ Returned[k].priority = (IF running THEN P4 ELSE P1)

-----------------------------------------------------------------------------
(* The Findings of check_disk_health, under SpecChecks *)

Spinning == Proc(<<>>, "1", 0)

(* what the check returns for the same devices when none of them is an SSD *)
WithoutSsdPass ==
    check_disk_health(DiskEnv(probe.names,
                              [j \in 1..Len(probe.names) |->
                                   [probe.disk[j] EXCEPT !.rotational = Spinning]])).val

(* the SSD pass may turn NORMAL/P4 into ATENÇÃO/P2 and changes nothing else: *)
(* before is the Finding without the pass, after the Finding returned        *)
SsdPassOnly(before, after, d) ==
    /\ after.item = before.item
    /\ \/ (after.status = before.status /\ after.priority = before.priority)
       \/ (before.status = NORMAL /\ before.priority = P4
              /\ after.status = ATENCAO /\ after.priority = P2)
    /\ before.status \in {ATENCAO, FALHA} => after = before
    /\ ("FAILED" \in d.health.out /\ "PASSED" \notin d.health.out) =>
           (after.status = FALHA /\ after.priority = P1)

(* C29 as claimed: one Finding for every block device ls /sys/block lists, *)
(* in order, and the SSD pass only turns NORMAL/P4 into ATENÇÃO/P2         *)
C29_FindingPerListedDevice ==
    result.of = "check_disk_health" =>
        /\ Len(Returned) = Len(probe.names)
        /\ \A j \in 1..Len(probe.names) :
               j <= Len(Returned) =>
                   /\ Returned[j].item = "Disco /dev/" \o probe.names[j]
                   /\ j <= Len(WithoutSsdPass) =>
                          SsdPassOnly(WithoutSsdPass[j], Returned[j], probe.disk[j])

(* the listed devices the check keeps: names not starting with loop, ram or sr *)
KeptDisks ==
    SelectSeq([j \in 1..Len(probe.names) |-> j],
              LAMBDA j : ~(\/ StartsWith(probe.names[j], "loop")
                           \/ StartsWith(probe.names[j], "ram")
                           \/ StartsWith(probe.names[j], "sr")))

(* C29: check_disk_health returns one Finding for every listed block       *)
(* device whose name does not start with loop, ram or sr, in order, and    *)
(* none for the others; the SSD pass only turns NORMAL/P4 into ATENÇÃO/P2: *)
(* a disk whose self-assessment FAILED stays FALHA/P1 and a Finding that   *)
(* is ATENÇÃO or FALHA before the pass is returned as it was.              *)
C29_FindingPerKeptDevice ==
    result.of = "check_disk_health" =>
        /\ Len(Returned) = Len(KeptDisks)
        /\ Len(WithoutSsdPass) = Len(KeptDisks)
        /\ \A k \in 1..Len(KeptDisks) :
               /\ Returned[k].item = "Disco /dev/" \o probe.names[KeptDisks[k]]
               /\ SsdPassOnly(WithoutSsdPass[k], Returned[k], probe.disk[KeptDisks[k]])

(* C29 witness: loop0 and an SSD are listed; the SSD passed its            *)
(* self-assessment, is worn, and is the one Finding, ATENÇÃO/P2            *)
C29_Witness ==
    /\ result.of = "check_disk_health"
    /\ probe.names = <<"loop0", "nvme0n1">>
    /\ "PASSED" \in probe.disk[2].health.out /\ probe.disk[2].rotational.raw = "0"
    /\ Len(Returned) = 1
    /\ Returned[1].status = ATENCAO /\ Returned[1].priority = P2
    /\ WithoutSsdPass[1].status = NORMAL

-----------------------------------------------------------------------------
(* The Findings of check_network_errors, under SpecChecks *)

(* the lines of /proc/net/dev after the header *)
IfaceLines ==
    IF Len(probe.netdev.lines) < 3 THEN <<>>
    ELSE SubSeq(probe.netdev.lines, 3, Len(probe.netdev.lines))

IfaceName(line) == StripColons(TokText(line[1]))

(* the interface name starts with a prefix of INTERFACES_TO_IGNORE *)
Ignored(line) == \E p \in 1..Len(INTERFACES_TO_IGNORE) :
                     StartsWith(IfaceName(line), INTERFACES_TO_IGNORE[p])

(* the line reports a receive or transmit error or drop count above 0 *)
HasErrorsOrDrops(line) ==
    Len(line) >= 13 /\ line[4].n + line[12].n + line[5].n + line[13].n > 0

(* the lines of the interfaces that are not ignored and have errors or drops *)
Faulty == SelectSeq(IfaceLines, LAMBDA line : ~Ignored(line) /\ HasErrorsOrDrops(line))

(* C30 as claimed: check_network_errors always returns a list that is not *)
(* empty: one NORMAL/P4 Finding when no interface outside the ignored     *)
(* prefixes has an error or drop count above 0, otherwise one ATENÇÃO/P3  *)
(* Finding per such interface and no NORMAL Finding; no Finding names an  *)
(* interface with an ignored prefix.                                      *)
C30_NormalOrWarnings ==
    result.of = "check_network_errors" =>
        /\ result.val.exc = "" /\ Len(Returned) >= 1
        /\ Faulty = <<>> =>
               /\ Len(Returned) = 1
               /\ Returned[1].status = NORMAL /\ Returned[1].priority = P4
        /\ Faulty # <<>> =>
               /\ Len(Returned) = Len(Faulty)
               /\ \A k \in 1..Len(Returned) :
                      Returned[k].status = ATENCAO /\ Returned[k].priority = P3
        /\ \A k \in 1..Len(Returned) : \A j \in 1..Len(IfaceLines) :
               Ignored(IfaceLines[j]) =>
                   Returned[k].item # "Interface " \o IfaceName(IfaceLines[j])

(* C30: check_network_errors returns a list that is never empty.  When    *)
(* /proc/net/dev cannot be read it is one FALHA Finding.  When it was     *)
(* read it is one NORMAL/P4 Finding if no interface outside the ignored   *)
(* prefixes has an error or drop count above 0, else one ATENÇÃO/P3       *)
(* Finding for each such interface, in file order, and no NORMAL Finding; *)
(* no Finding names an interface with an ignored prefix.                  *)
C30_NetworkFindings ==
    result.of = "check_network_errors" =>
        /\ result.val.exc = "" /\ Len(Returned) >= 1
        /\ probe.netdev.err # "" =>
               /\ Len(Returned) = 1
               /\ Returned[1].status = FALHA
               /\ Returned[1].item = "Interfaces de Rede"
        /\ probe.netdev.err = "" =>
               /\ Faulty = <<>> =>
                      /\ Len(Returned) = 1
                      /\ Returned[1].status = NORMAL /\ Returned[1].priority = P4
               /\ Faulty # <<>> =>
                      /\ Len(Returned) = Len(Faulty)
                      /\ \A k \in 1..Len(Returned) :
                             /\ Returned[k].status = ATENCAO /\ Returned[k].priority = P3
                             /\ k <= Len(Faulty) =>
                                    Returned[k].item = "Interface " \o IfaceName(Faulty[k])
               /\ \A k \in 1..Len(Returned) : \A j \in 1..Len(IfaceLines) :
                      Ignored(IfaceLines[j]) =>
                          Returned[k].item # "Interface " \o IfaceName(IfaceLines[j])

(* C30 witness: lo and eth0 both count errors and the one Finding is the *)
(* warning for eth0                                                      *)
C30_Witness ==
    /\ result.of = "check_network_errors" /\ probe.netdev.err = ""
    /\ Len(IfaceLines) = 2
    /\ IfaceName(IfaceLines[1]) = "lo" /\ HasErrorsOrDrops(IfaceLines[1])
    /\ IfaceName(IfaceLines[2]) = "eth0" /\ HasErrorsOrDrops(IfaceLines[2])
    /\ Len(Returned) = 1 /\ Returned[1].item = "Interface eth0"
    /\ Returned[1].status = ATENCAO /\ Returned[1].priority = P3

(* ---------------------------------------------------------------------- *)
(* C27: one InfiniBand Finding, whose classification ignores the topology  *)
(* ---------------------------------------------------------------------- *)

Topologies == {"peer", "nopeer", "failed"}

(* what check_infiniband returns on the probed host had ibnetdiscover *)
(* answered as topo                                                    *)
WithTopology(topo) == check_infiniband(IbEnvOf([probe EXCEPT !.topo = topo])).val

SameButDetails(a, b) ==
    /\ a.category = b.category /\ a.item = b.item
    /\ a.status = b.status /\ a.priority = b.priority

(* C27: check_infiniband adds at most one Finding to the run whatever the   *)
(* number of ports ibstat lists, and whether ibnetdiscover shows a peer,    *)
(* shows none or fails changes neither the number of Findings nor the       *)
(* status or priority of the Finding, only its details.                     *)
C27_OneFindingTopologyFree ==
    result # NoResult /\ result.of = "check_infiniband" =>
        /\ Len(result.val.val) <= 1
        /\ all_checks = result.val.val
        /\ \A topo \in Topologies :
              /\ Len(WithTopology(topo)) = Len(result.val.val)
              /\ (Len(result.val.val) = 1 =>
                     SameButDetails(WithTopology(topo)[1], result.val.val[1]))

(* several ports, one of them not Active, ibnetdiscover failing: one Finding *)
(* whose details differ from the ones a found peer gives, nothing else       *)
C27_Witness ==
    /\ result # NoResult /\ result.of = "check_infiniband"
    /\ Len(probe.ports) >= 2
    /\ probe.topo = "failed"
    /\ Len(all_checks) = 1
    /\ all_checks[1].status = ATENCAO
    /\ all_checks[1].details # WithTopology("peer")[1].details
    /\ all_checks[1].details = WithTopology("nopeer")[1].details

====
